---- MODULE Spec2Model ----
(***************************************************************************)
(* Verification model of the project-workspace-operator:                   *)
(*   - the admission gate (ProjectWebhook),                                *)
(*   - the shared config store and the config reconciler                   *)
(*     (PWOConfigController),                                              *)
(*   - the tenancy reconcilers (ProjectReconciler, WorkspaceReconciler     *)
(*     on top of CommonReconciler).                                        *)
(* Three specifications share the variables: SpecWebhook, Spec (config     *)
(* store and its readers) and SpecTenancy.                                 *)
(***************************************************************************)
EXTENDS Integers, Sequences, FiniteSets, TLC

VARIABLES
    \* ---- admission gate ----
    whOverrideName,   \* ProjectWebhook.OverrideName ("" = overrides not configured)
    whProject,        \* the Project object stored in the onboarding cluster
    whOverrides,      \* the MemberOverrides object (NoObject when absent)
    whLast,           \* outcome of the last admission request
    \* ---- platform cluster and cluster-access broker ----
    cfgObj,           \* the ProjectWorkspaceConfig object
    providers,        \* the ServiceProvider objects, as listed
    grant,            \* the dynamic access grant registered with the broker (Car)
    \* ---- PWOConfigController ----
    OnboardingClusterAccessStatic,      \* FALSE when the static handle is nil
    lock,                               \* the RWMutex: writer flag and set of readers
    resourcesBlockingProjectDeletion,
    resourcesBlockingWorkspaceDeletion,
    permissibleProjectResources,
    permissibleWorkspaceResources,
    projectPermissionsFromConfig,
    workspacePermissionsFromConfig,
    onboardingClusterAccessDynamic,
    missingConfig,
    cfgPc,            \* position of the config reconcile
    cfgLocal,         \* its local variables (cfg, sps)
    cfgResult,        \* what reconcile returned to its caller Reconcile
    cfgEvent,         \* the last event recorded on the configuration object
    stable,           \* the snapshot as of the last release of the write lock
    \* ---- a tenancy reconcile as reader of the store ----
    rd,
    \* ---- onboarding cluster and the tenancy reconcilers ----
    objects,          \* the Project and the Workspace object, per kind
    namespaces,       \* their tenant namespaces: "absent", "active" or "terminating"
    content,          \* kinds of which an instance lives in the tenant namespace
    clusterRoles,     \* whether the cluster roles and bindings of the object exist
    tn,               \* the reconcile in flight per kind: position and locals
    everOk            \* a reconcile of the present object has returned without error

whVars == <<whOverrideName, whProject, whOverrides, whLast>>

envVars == <<cfgObj, providers, grant>>

storeVars ==
    <<resourcesBlockingProjectDeletion, resourcesBlockingWorkspaceDeletion,
      permissibleProjectResources, permissibleWorkspaceResources,
      projectPermissionsFromConfig, workspacePermissionsFromConfig,
      onboardingClusterAccessDynamic, missingConfig>>

cfgVars ==
    <<OnboardingClusterAccessStatic, lock, storeVars, cfgPc, cfgLocal, cfgResult, cfgEvent, stable>>

tnVars == <<objects, namespaces, content, clusterRoles, tn, everOk>>

vars == <<whVars, envVars, cfgVars, rd, tnVars>>

\* what the admission gate leaves alone
nonWhVars == <<envVars, cfgVars, rd, tnVars>>

\* what the config reconciler and the store readers leave alone
nonCfgVars == <<whVars, tnVars>>

\* what the tenancy reconcilers leave alone
nonTnVars == <<whVars, envVars, cfgVars, rd>>

\* an object that does not exist in its cluster
NoObject == [exists |-> FALSE]

(***************************************************************************)
(* Identity & role model                                                   *)
(***************************************************************************)
UserKind == "User"
GroupKind == "Group"
ServiceAccountKind == "ServiceAccount"

RoleAdmin == "admin"
RoleView == "view"

\* the operator's own identity, as found by the self-subject-review at startup
Identity == "system:serviceaccount:pwo-system:pwo"

Subject(kind, name, ns) == [Kind |-> kind, Name |-> name, Namespace |-> ns]

Member(kind, name, ns, roles) ==
    [Kind |-> kind, Name |-> name, Namespace |-> ns, Roles |-> roles]

\* ProjectMember.Username / MemberOverride.Username: <<name, isUserOrSA>>
Username(m) ==
    CASE m.Kind = UserKind -> <<m.Name, TRUE>>
      [] m.Kind = ServiceAccountKind ->
            <<"system:serviceaccount:" \o m.Namespace \o ":" \o m.Name, TRUE>>
      [] OTHER -> <<"", FALSE>>

\* UserInfoRoles with the group loop matching members of every kind
UserInfoRoles_AnyKindAsGroup(obj, userInfo) ==
    UNION ({m.Roles : m \in {x \in obj.Members :
                                Username(x)[1] = userInfo.Username /\ Username(x)[2]}}
           \cup
           {m.Roles : m \in {x \in obj.Members : x.Name \in userInfo.Groups}})

\* Project.UserInfoRoles
UserInfoRoles(obj, userInfo) ==
    UNION ({m.Roles : m \in {x \in obj.Members :
                                Username(x)[1] = userInfo.Username /\ Username(x)[2]}}
           \cup
           {m.Roles : m \in {x \in obj.Members :
                                x.Kind = GroupKind /\ x.Name \in userInfo.Groups}})

\* Project.UserInfoHasRole
UserInfoHasRole(obj, userInfo, role) == role \in UserInfoRoles(obj, userInfo)

\* strings.EqualFold over the strings that occur in the model
ToLower(s) ==
    CASE s = "Project" -> "project"
      [] s = "Workspace" -> "workspace"
      [] s = "P1" -> "p1"
      [] OTHER -> s

EqualFold(a, b) == ToLower(a) = ToLower(b)

\* MemberOverride.hasResource
hasResource(o, resourceName, resourceKind) ==
    \E r \in o.Resources : EqualFold(r.Kind, resourceKind) /\ EqualFold(r.Name, resourceName)

\* MemberOverride.hasUserOrSA
hasUserOrSA(o, userInfo) == Username(o)[2] /\ Username(o)[1] = userInfo.Username

\* MemberOverride.hasGroup
hasGroup(o, userInfo) == o.Kind = GroupKind /\ o.Name \in userInfo.Groups

\* MemberOverride.hasAdminRole
hasAdminRole(o) == RoleAdmin \in o.Roles

\* HasAdminOverrideForResource with every admin entry of a matching subject
\* taken as a global override
HasAdminOverrideForResource_AnyResource(overrides, userInfo, resourceName, resourceKind) ==
    \E o \in overrides :
        /\ hasAdminRole(o)
        /\ hasUserOrSA(o, userInfo) \/ hasGroup(o, userInfo)

\* MemberOverrides.HasAdminOverrideForResource
HasAdminOverrideForResource(overrides, userInfo, resourceName, resourceKind) ==
    \E o \in overrides :
        /\ hasAdminRole(o)
        /\ \/ hasUserOrSA(o, userInfo) /\ o.Resources = {}
           \/ hasGroup(o, userInfo) /\ o.Resources = {}
           \/ /\ hasResource(o, resourceName, resourceKind)
              /\ hasUserOrSA(o, userInfo) \/ hasGroup(o, userInfo)

(***************************************************************************)
(* Admission gate: inputs                                                  *)
(***************************************************************************)
SA1Name == "system:serviceaccount:ns1:sa1"

UserInfos ==
    { [Username |-> "alice", Groups |-> {}],
      [Username |-> "bob",   Groups |-> {"team"}],
      [Username |-> SA1Name, Groups |-> {}],
      [Username |-> Identity, Groups |-> {}] }

MemberChoices ==
    { Member(UserKind, "alice", "", {RoleAdmin}),
      Member(GroupKind, "team", "", {RoleAdmin, RoleView}),
      Member(ServiceAccountKind, "sa1", "ns1", {RoleView}) }

Override(kind, name, ns, roles, resources) ==
    [Kind |-> kind, Name |-> name, Namespace |-> ns, Roles |-> roles, Resources |-> resources]

OverrideChoices ==
    { Override(UserKind, "alice", "", {RoleAdmin}, {}),
      Override(GroupKind, "team", "", {RoleAdmin}, {[Kind |-> "project", Name |-> "P1"]}),
      Override(ServiceAccountKind, "sa1", "ns1", {RoleAdmin, RoleView}, {}),
      Override(UserKind, "bob", "", {RoleAdmin}, {[Kind |-> "workspace", Name |-> "p1"]}) }

\* number of entries of the MemberOverrides object explored
MaxOverrides == 1

OverridesChoices ==
    {[exists |-> TRUE, entries |-> s] : s \in {t \in SUBSET OverrideChoices : Cardinality(t) <= MaxOverrides}}

\* created-by values a request may carry: the stored one or a forged one
CreatedByChoices(stored) == {stored, "mallory"}

ProjectName == "p1"

ProjectObject(members, createdBy) ==
    [exists |-> TRUE, Name |-> ProjectName, Kind |-> "Project", Members |-> members,
     CreatedBy |-> createdBy]

NoRequest ==
    [op |-> "none", user |-> [Username |-> "", Groups |-> {}], obj |-> NoObject,
     allowed |-> FALSE, err |-> ""]

(***************************************************************************)
(* Admission gate: webhook functions                                       *)
(***************************************************************************)
ErrNoAccess == "requesting user will not be able to manage the resource"
ErrCreatedByImmutable == "annotation created-by is immutable"
ErrGetOverrides == "failed to get MemberOverrides"

\* outcome of v.Get on the MemberOverrides object
GetOutcomes == IF whOverrides = NoObject THEN {"notfound", "error"} ELSE {"ok", "error"}

\* ensureValidRole with a failed lookup read as "no override"
ensureValidRole_LookupFailureIgnored(obj, userInfo, get) ==
    IF UserInfoHasRole(obj, userInfo, RoleAdmin) \/ userInfo.Username = Identity
    THEN <<TRUE, "">>
    ELSE IF whOverrideName = ""
    THEN <<FALSE, "">>
    ELSE IF get # "ok"
    THEN <<FALSE, "">>
    ELSE IF HasAdminOverrideForResource(whOverrides.entries, userInfo, obj.Name, obj.Kind)
    THEN <<TRUE, "">>
    ELSE <<FALSE, "">>

\* ProjectWebhook.ensureValidRole: <<validRole, err>>
ensureValidRole(obj, userInfo, get) ==
    IF UserInfoHasRole(obj, userInfo, RoleAdmin) \/ userInfo.Username = Identity
    THEN <<TRUE, "">>
    ELSE IF whOverrideName = ""
    THEN <<FALSE, "">>
    ELSE IF get # "ok"
    THEN <<FALSE, ErrGetOverrides>>
    ELSE IF HasAdminOverrideForResource(whOverrides.entries, userInfo, obj.Name, obj.Kind)
    THEN <<TRUE, "">>
    ELSE <<FALSE, "">>

\* setCreatedBy (mutating webhook, applied on create only)
setCreatedBy(obj, op, userInfo) ==
    IF op = "create" THEN [obj EXCEPT !.CreatedBy = userInfo.Username] ELSE obj

\* a comparison that lets every value pass
verifyCreatedByUnchanged_Lax(old, new) == ""

\* verifyCreatedByUnchanged
verifyCreatedByUnchanged(old, new) ==
    IF old.CreatedBy = new.CreatedBy THEN "" ELSE ErrCreatedByImmutable

\* ProjectWebhook.ValidateCreate: the error returned ("" = admitted)
ValidateCreate(obj, userInfo, get) ==
    LET r == ensureValidRole(obj, userInfo, get) IN
    IF r[2] # "" THEN r[2]
    ELSE IF ~r[1] THEN ErrNoAccess
    ELSE ""

\* ValidateUpdate without the check of the post-image (the self-removal guard dropped)
ValidateUpdate_OldImageOnly(old, new, userInfo, get1, get2) ==
    LET cb == verifyCreatedByUnchanged(old, new)
        r1 == ensureValidRole(old, userInfo, get1)
    IN  IF cb # "" THEN cb
        ELSE IF r1[2] # "" THEN r1[2]
        ELSE IF ~r1[1] THEN ErrNoAccess
        ELSE ""

\* ProjectWebhook.ValidateUpdate
ValidateUpdate(old, new, userInfo, get1, get2) ==
    LET cb == verifyCreatedByUnchanged(old, new)
        r1 == ensureValidRole(old, userInfo, get1)
        r2 == ensureValidRole(new, userInfo, get2)
    IN  IF cb # "" THEN cb
        ELSE IF r1[2] # "" THEN r1[2]
        ELSE IF ~r1[1] THEN ErrNoAccess
        ELSE IF r2[2] # "" THEN r2[2]
        ELSE IF ~r2[1] THEN ErrNoAccess
        ELSE ""

\* ProjectWebhook.ValidateDelete: "if validRole, err := ...; !validRole { return warnings, err }"
ValidateDelete(obj, userInfo, get) ==
    LET r == ensureValidRole(obj, userInfo, get) IN
    IF ~r[1] THEN r[2] ELSE ""

(***************************************************************************)
(* Admission gate: requests                                                *)
(***************************************************************************)
\* the response to a request; obj is the object an admitted request stored or deleted
Admission(op, userInfo, obj, err) ==
    [op |-> op, user |-> userInfo, obj |-> IF err = "" THEN obj ELSE NoObject,
     allowed |-> (err = ""), err |-> err]

\* CREATE request: mutating webhook (Default), then ValidateCreate
AdmitCreate ==
    /\ whProject = NoObject
    /\ \E userInfo \in UserInfos, members \in SUBSET MemberChoices,
          createdBy \in CreatedByChoices(""), get \in GetOutcomes :
          LET obj == setCreatedBy(ProjectObject(members, createdBy), "create", userInfo)
              err == ValidateCreate(obj, userInfo, get)
          IN  /\ whProject' = IF err = "" THEN obj ELSE whProject
              /\ whLast' = Admission("create", userInfo, obj, err)
    /\ UNCHANGED <<whOverrideName, whOverrides, nonWhVars>>

\* an UPDATE request validated against the submitted object alone
AdmitUpdate_NewImageOnly ==
    /\ whProject # NoObject
    /\ \E userInfo \in UserInfos, members \in SUBSET MemberChoices,
          createdBy \in CreatedByChoices(whProject.CreatedBy),
          get1 \in GetOutcomes, get2 \in GetOutcomes :
          LET obj == setCreatedBy(ProjectObject(members, createdBy), "update", userInfo)
              err == ValidateUpdate(obj, obj, userInfo, get1, get2)
          IN  /\ whProject' = IF err = "" THEN obj ELSE whProject
              /\ whLast' = Admission("update", userInfo, obj, err)
    /\ UNCHANGED <<whOverrideName, whOverrides, nonWhVars>>

\* UPDATE request: mutating webhook (a no-op on update), then ValidateUpdate
AdmitUpdate ==
    /\ whProject # NoObject
    /\ \E userInfo \in UserInfos, members \in SUBSET MemberChoices,
          createdBy \in CreatedByChoices(whProject.CreatedBy),
          get1 \in GetOutcomes, get2 \in GetOutcomes :
          LET obj == setCreatedBy(ProjectObject(members, createdBy), "update", userInfo)
              err == ValidateUpdate(whProject, obj, userInfo, get1, get2)
          IN  /\ whProject' = IF err = "" THEN obj ELSE whProject
              /\ whLast' = Admission("update", userInfo, obj, err)
    /\ UNCHANGED <<whOverrideName, whOverrides, nonWhVars>>

\* DELETE request: ValidateDelete
AdmitDelete ==
    /\ whProject # NoObject
    /\ \E userInfo \in UserInfos, get \in GetOutcomes :
          LET err == ValidateDelete(whProject, userInfo, get)
          IN  /\ whProject' = IF err = "" THEN NoObject ELSE whProject
              /\ whLast' = Admission("delete", userInfo, whProject, err)
    /\ UNCHANGED <<whOverrideName, whOverrides, nonWhVars>>

\* the platform administrator creates, edits or removes the MemberOverrides object
SetOverrides ==
    /\ \E o \in OverridesChoices \cup {NoObject} :
          /\ o # whOverrides
          /\ whOverrides' = o
    /\ whLast' = NoRequest
    /\ UNCHANGED <<whOverrideName, whProject, nonWhVars>>

(***************************************************************************)
(* Shared config store: data                                               *)
(***************************************************************************)
SetOf(seq) == {seq[i] : i \in DOMAIN seq}

GVK(group, version, kind) == [Group |-> group, Version |-> version, Kind |-> kind]

PwoGroup == "core.openmcp.cloud"

GvkWorkspace == GVK(PwoGroup, "v1alpha1", "Workspace")
GvkMCP == GVK(PwoGroup, "v2alpha1", "ManagedControlPlaneV2")
GvkConfigMap == GVK("", "v1", "ConfigMap")
GvkSecret == GVK("", "v1", "Secret")
GvkMyRes == GVK("mygroup.project", "v1", "MyProjectBlockingResource")
GvkTwin == GVK("mygroup.project", "v1", "Twin")
GvkGhost == GVK("ghost.group", "v1", "Ghost")

SourceBuiltin == "Builtin"
SourceProjectWorkspaceConfig == "ProjectWorkspaceConfig"
SourceServiceProvider(name) == "ServiceProvider[" \o name \o "]"

\* DeletionBlockingResource
DeletionBlockingResource(gvk, source) == [gvk |-> gvk, Source |-> source]

\* APIGroupsWithResources
APIGroupsWithResources(groups, resources) == [APIGroups |-> groups, Resources |-> resources]

\* rbacv1.PolicyRule
PolicyRule(groups, resources, verbs) ==
    [APIGroups |-> groups, Resources |-> resources, Verbs |-> verbs]

\* a Go slice or map field: nil, or a value
Nil == [nil |-> TRUE, items |-> <<>>]
Slice(items) == [nil |-> FALSE, items |-> items]

BuiltinResourcesBlockingProjectDeletion ==
    <<DeletionBlockingResource(GvkWorkspace, SourceBuiltin)>>
BuiltinResourcesBlockingWorkspaceDeletion ==
    <<DeletionBlockingResource(GvkMCP, SourceBuiltin)>>
BuiltinPermissibleProjectResources ==
    <<APIGroupsWithResources(<<PwoGroup \o "/v1alpha1">>, <<"workspaces">>)>>
BuiltinPermissibleWorkspaceResources ==
    <<APIGroupsWithResources(<<PwoGroup \o "/v2alpha1">>, <<"managedcontrolplanev2s">>)>>

AdminRole == "admin"
ViewerRole == "viewer"

\* ProjectMemberRoleToRoleID / WorkspaceMemberRoleToRoleID
MemberRoleToRoleID(role) ==
    CASE role = RoleAdmin -> AdminRole
      [] role = RoleView -> ViewerRole
      [] OTHER -> ""

(***************************************************************************)
(* API discovery on the onboarding cluster                                 *)
(***************************************************************************)
APIResource(name, kind) == [Name |-> name, Kind |-> kind]

\* the API resource lists served per groupVersion; a groupVersion that is
\* not listed is not served (discovery returns an error)
ServerGroupVersions == {"v1", "mygroup.project/v1", PwoGroup \o "/v1alpha1", PwoGroup \o "/v2alpha1"}

ServerResourcesForGroupVersion(gv) ==
    CASE gv = "v1" ->
            { APIResource("configmaps", "ConfigMap"),
              APIResource("secrets", "Secret") }
      [] gv = "mygroup.project/v1" ->
            { APIResource("myprojectblockingresources", "MyProjectBlockingResource"),
              APIResource("myprojectblockingresources/status", "MyProjectBlockingResource"),
              APIResource("twins", "Twin"),
              APIResource("twinsets", "Twin") }
      [] gv = PwoGroup \o "/v1alpha1" ->
            { APIResource("workspaces", "Workspace"),
              APIResource("workspaces/status", "Workspace") }
      [] gv = PwoGroup \o "/v2alpha1" ->
            { APIResource("managedcontrolplanev2s", "ManagedControlPlaneV2"),
              APIResource("managedcontrolplanev2s/status", "ManagedControlPlaneV2") }
      [] OTHER -> {}

PluralNames ==
    {"configmaps", "secrets", "myprojectblockingresources", "twins", "twinsets",
     "workspaces", "managedcontrolplanev2s"}

StatusOf(resourceName) == resourceName \o "/status"

\* strings.Contains(name, "/") over the resource names of the model
ContainsSlash(name) == \E n \in PluralNames : name = StatusOf(n)

\* strings.TrimPrefix(fmt.Sprintf("%s/%s", group, version), "/")
GroupVersionString(gvk) ==
    IF gvk.Group = "" THEN gvk.Version ELSE gvk.Group \o "/" \o gvk.Version

ErrDiscovery == "failed to discover resource names"
ErrAmbiguous == "unable to unambiguously determine resource name"

\* the discovery filter with the subresource test dropped
resMatches_WithSubresources(gvk) ==
    {r \in ServerResourcesForGroupVersion(GroupVersionString(gvk)) : r.Kind = gvk.Kind}

\* the matches kept by the filter of discoverResourceNameForGVK
resMatches(gvk) ==
    {r \in ServerResourcesForGroupVersion(GroupVersionString(gvk)) :
        r.Kind = gvk.Kind /\ ~ContainsSlash(r.Name)}

\* PWOConfigController.discoverResourceNameForGVK: [name, err]
discoverResourceNameForGVK(gvk) ==
    IF GroupVersionString(gvk) \notin ServerGroupVersions
    THEN [name |-> "", err |-> ErrDiscovery]
    ELSE IF Cardinality(resMatches(gvk)) # 1
    THEN [name |-> "", err |-> ErrAmbiguous]
    ELSE [name |-> (CHOOSE r \in resMatches(gvk) : TRUE).Name, err |-> ""]

(***************************************************************************)
(* APIGroupsWithResourcesList.Append                                       *)
(***************************************************************************)
\* the same search comparing the apiGroups as ordered lists
FirstWithGroups_Ordered(l, groups) ==
    IF \E i \in DOMAIN l : l[i].APIGroups = groups
    THEN CHOOSE i \in DOMAIN l :
            /\ l[i].APIGroups = groups
            /\ \A j \in DOMAIN l : l[j].APIGroups = groups => i <= j
    ELSE 0

\* index of the first entry of l whose apiGroups equal groups as sets, 0 if none
FirstWithGroups(l, groups) ==
    IF \E i \in DOMAIN l : SetOf(l[i].APIGroups) = SetOf(groups)
    THEN CHOOSE i \in DOMAIN l :
            /\ SetOf(l[i].APIGroups) = SetOf(groups)
            /\ \A j \in DOMAIN l : SetOf(l[j].APIGroups) = SetOf(groups) => i <= j
    ELSE 0

RECURSIVE MergeResources(_, _)
\* appends the resources of add that are not yet in existing, in order
MergeResources(existing, add) ==
    IF add = <<>> THEN existing
    ELSE IF Head(add) \in SetOf(existing)
    THEN MergeResources(existing, Tail(add))
    ELSE MergeResources(Append(existing, Head(add)), Tail(add))

\* one iteration of the loop of APIGroupsWithResourcesList.Append
AppendOne(l, elem) ==
    LET i == FirstWithGroups(l, elem.APIGroups) IN
    IF i = 0 THEN Append(l, elem)
    ELSE [l EXCEPT ![i].Resources = MergeResources(l[i].Resources, elem.Resources)]

RECURSIVE AppendAll(_, _)
\* APIGroupsWithResourcesList.Append(elems...)
AppendAll(l, elems) ==
    IF elems = <<>> THEN l ELSE AppendAll(AppendOne(l, Head(elems)), Tail(elems))

(***************************************************************************)
(* Platform cluster objects read by the config reconciler                  *)
(***************************************************************************)
ProviderName == "project-workspace-operator"

NoRules == [r \in {} |-> <<>>]

ConfigSpec(projBlocking, projPerms, wsBlocking, wsPerms) ==
    [Project   |-> [ResourcesBlockingDeletion |-> projBlocking, AdditionalPermissions |-> projPerms],
     Workspace |-> [ResourcesBlockingDeletion |-> wsBlocking, AdditionalPermissions |-> wsPerms]]

CfgEmpty == ConfigSpec(<<>>, NoRules, <<>>, NoRules)

CfgS3 ==
    ConfigSpec(
        <<GvkMyRes>>,
        [r \in {RoleView} |->
            <<PolicyRule(<<"mygroup.project">>, <<"myprojectadditionalresources1">>, <<"get", "update">>)>>],
        <<GvkSecret>>,
        [r \in {RoleAdmin} |->
            <<PolicyRule(<<"mygroup.workspace">>, <<"myworkspaceadditionalresources1">>, <<"get", "update">>)>>])

\* a configuration that names a kind the onboarding cluster does not serve
CfgGhost == ConfigSpec(<<GvkGhost>>, NoRules, <<>>, NoRules)

CfgChoices == {CfgEmpty, CfgS3, CfgGhost}

ConfigObject(spec, deleting) == [exists |-> TRUE, deleting |-> deleting, Spec |-> spec]

ServiceProvider(name, resources) == [Name |-> name, Resources |-> resources]

\* number of ServiceProvider objects explored
MaxProviders == 2

AllProviderLists ==
    { <<>>,
      <<ServiceProvider("dummy-1", <<GvkConfigMap>>)>>,
      <<ServiceProvider("dummy-1", <<GvkConfigMap>>), ServiceProvider("dummy-2", <<GvkSecret>>)>>,
      <<ServiceProvider("dummy-1", <<GvkTwin>>)>>,
      <<ServiceProvider("dummy-1", <<GvkConfigMap, GvkSecret>>)>>,
      <<ServiceProvider("dummy-1", <<GvkConfigMap>>), ServiceProvider("dummy-2", <<GvkSecret>>),
        ServiceProvider("dummy-3", <<GvkMyRes>>)>> }

ProviderChoices == {l \in AllProviderLists : Len(l) <= MaxProviders}

(***************************************************************************)
(* PWOConfigController.reconcile: the values it assembles                  *)
(***************************************************************************)
\* lines 531-542: the blocking lists taken from the configuration object
BlockingFromConfig(gvks) ==
    [i \in DOMAIN gvks |-> DeletionBlockingResource(gvks[i], SourceProjectWorkspaceConfig)]

\* extra rules whose verbs are rewritten to the verbs of the role they are bound to
PermissionsFromConfig_VerbsByRole(perms) ==
    [id \in {MemberRoleToRoleID(r) : r \in DOMAIN perms} |->
        LET rules == perms[CHOOSE r \in DOMAIN perms : MemberRoleToRoleID(r) = id]
        IN  [i \in DOMAIN rules |->
                PolicyRule(rules[i].APIGroups, rules[i].Resources,
                           IF id = AdminRole THEN <<"*">> ELSE <<"get", "list", "watch">>)]]

\* lines 543-550: the per-role extra rules taken from the configuration object
PermissionsFromConfig(perms) ==
    [id \in {MemberRoleToRoleID(r) : r \in DOMAIN perms} |->
        perms[CHOOSE r \in DOMAIN perms : MemberRoleToRoleID(r) = id]]

RECURSIVE FlattenProviders(_)
\* the (provider, gvk) pairs in the order of the two nested loops of lines 561-562
FlattenProviders(sps) ==
    IF sps = <<>> THEN <<>>
    ELSE [i \in DOMAIN Head(sps).Resources |->
             [sp |-> Head(sps).Name, gvk |-> Head(sps).Resources[i]]]
         \o FlattenProviders(Tail(sps))

RECURSIVE ProcessProviders(_, _, _)
\* lines 561-582: [err, blocking, permissible]
ProcessProviders(entries, blocking, permissible) ==
    IF entries = <<>>
    THEN [err |-> "", blocking |-> blocking, permissible |-> permissible]
    ELSE LET e == Head(entries)
             d == discoverResourceNameForGVK(e.gvk)
             blocking2 == Append(blocking, DeletionBlockingResource(e.gvk, SourceServiceProvider(e.sp)))
         IN  IF d.err # ""
             THEN [err |-> d.err, blocking |-> blocking2, permissible |-> permissible]
             ELSE ProcessProviders(Tail(entries), blocking2,
                     AppendAll(permissible, <<APIGroupsWithResources(<<e.gvk.Group>>, <<d.name>>)>>))

\* the new values computed from the fetched configuration and providers
Assemble(cfg, sps) ==
    LET pp == ProcessProviders(FlattenProviders(sps),
                               BlockingFromConfig(cfg.Workspace.ResourcesBlockingDeletion), <<>>)
    IN  [err |-> pp.err,
         newResourcesBlockingProjectDeletion |-> BlockingFromConfig(cfg.Project.ResourcesBlockingDeletion),
         newResourcesBlockingWorkspaceDeletion |-> pp.blocking,
         newPermissibleProjectResources |-> <<>>,
         newPermissibleWorkspaceResources |-> pp.permissible,
         newProjectPermissionsFromConfig |-> PermissionsFromConfig(cfg.Project.AdditionalPermissions),
         newWorkspacePermissionsFromConfig |-> PermissionsFromConfig(cfg.Workspace.AdditionalPermissions)]

GrantVerbs == <<"get", "list", "watch">>

\* lines 595-616 with the "/status" resource left out
RECURSIVE PermissionGroups_NoStatus(_, _)
PermissionGroups_NoStatus(blocking, groups) ==
    IF blocking = <<>> THEN [err |-> "", groups |-> groups]
    ELSE LET d == discoverResourceNameForGVK(Head(blocking).gvk) IN
         IF d.err # "" THEN [err |-> d.err, groups |-> groups]
         ELSE PermissionGroups_NoStatus(Tail(blocking),
                 AppendAll(groups, <<APIGroupsWithResources(<<Head(blocking).gvk.Group>>, <<d.name>>)>>))

RECURSIVE PermissionGroups(_, _)
\* lines 595-616: the loops over the two blocking lists: [err, groups]
PermissionGroups(blocking, groups) ==
    IF blocking = <<>> THEN [err |-> "", groups |-> groups]
    ELSE LET d == discoverResourceNameForGVK(Head(blocking).gvk) IN
         IF d.err # "" THEN [err |-> d.err, groups |-> groups]
         ELSE PermissionGroups(Tail(blocking),
                 AppendAll(groups, <<APIGroupsWithResources(<<Head(blocking).gvk.Group>>,
                                                            <<d.name, StatusOf(d.name)>>)>>))

\* lines 617-627: one PermissionsRequest (a single rule) per permission group
Permissions(groups) ==
    [i \in DOMAIN groups |-> PolicyRule(groups[i].APIGroups, groups[i].Resources, GrantVerbs)]

(***************************************************************************)
(* SharedInformation: the readers of the store                             *)
(***************************************************************************)
ErrMissingConfig == "ProjectWorkspaceConfig is missing"
ErrUnknownRole == "unknown role ID"
ErrDynamicNotInitialized == "dynamic onboarding cluster access not initialized yet"

\* the eight fields guarded by the lock
Snapshot ==
    [resourcesBlockingProjectDeletion   |-> resourcesBlockingProjectDeletion,
     resourcesBlockingWorkspaceDeletion |-> resourcesBlockingWorkspaceDeletion,
     permissibleProjectResources        |-> permissibleProjectResources,
     permissibleWorkspaceResources      |-> permissibleWorkspaceResources,
     projectPermissionsFromConfig       |-> projectPermissionsFromConfig,
     workspacePermissionsFromConfig     |-> workspacePermissionsFromConfig,
     onboardingClusterAccessDynamic     |-> onboardingClusterAccessDynamic,
     missingConfig                      |-> missingConfig]

\* a reader in which configured entries take the place of the builtin ones
ResourcesBlockingProjectDeletion_Replaced ==
    IF missingConfig THEN [err |-> ErrMissingConfig, res |-> <<>>]
    ELSE [err |-> "",
          res |-> IF resourcesBlockingProjectDeletion.items = <<>>
                  THEN BuiltinResourcesBlockingProjectDeletion
                  ELSE resourcesBlockingProjectDeletion.items]

\* PWOConfigController.ResourcesBlockingProjectDeletion
ResourcesBlockingProjectDeletion ==
    IF missingConfig THEN [err |-> ErrMissingConfig, res |-> <<>>]
    ELSE [err |-> "",
          res |-> BuiltinResourcesBlockingProjectDeletion \o resourcesBlockingProjectDeletion.items]

\* PWOConfigController.ResourcesBlockingWorkspaceDeletion
ResourcesBlockingWorkspaceDeletion ==
    IF missingConfig THEN [err |-> ErrMissingConfig, res |-> <<>>]
    ELSE [err |-> "",
          res |-> BuiltinResourcesBlockingWorkspaceDeletion \o resourcesBlockingWorkspaceDeletion.items]

\* a helper that answers an unknown role with no rules instead of an error
permissionsForRoleHelper_EmptyDefault(roleID, permissibleResources) ==
    CASE roleID = AdminRole ->
            [err |-> "",
             res |-> [i \in DOMAIN permissibleResources |->
                        PolicyRule(permissibleResources[i].APIGroups,
                                   permissibleResources[i].Resources, <<"*">>)]]
      [] roleID = ViewerRole ->
            [err |-> "",
             res |-> [i \in DOMAIN permissibleResources |->
                        PolicyRule(permissibleResources[i].APIGroups,
                                   permissibleResources[i].Resources, <<"get", "list", "watch">>)]]
      [] OTHER -> [err |-> "", res |-> <<>>]

\* permissionsForRoleHelper
permissionsForRoleHelper(roleID, permissibleResources) ==
    CASE roleID = AdminRole ->
            [err |-> "",
             res |-> [i \in DOMAIN permissibleResources |->
                        PolicyRule(permissibleResources[i].APIGroups,
                                   permissibleResources[i].Resources, <<"*">>)]]
      [] roleID = ViewerRole ->
            [err |-> "",
             res |-> [i \in DOMAIN permissibleResources |->
                        PolicyRule(permissibleResources[i].APIGroups,
                                   permissibleResources[i].Resources, <<"get", "list", "watch">>)]]
      [] OTHER -> [err |-> ErrUnknownRole, res |-> <<>>]

\* m[roleID] on a Go map: the zero value (no rules) for a missing key or a nil map
MapLookup(m, roleID) == IF roleID \in DOMAIN m.items THEN m.items[roleID] ELSE <<>>

\* PWOConfigController.ProjectPermissionsForRole
ProjectPermissionsForRole(roleID) ==
    IF missingConfig THEN [err |-> ErrMissingConfig, res |-> <<>>]
    ELSE LET tmp == permissionsForRoleHelper(roleID,
                        BuiltinPermissibleProjectResources \o permissibleProjectResources.items)
         IN  IF tmp.err # "" THEN tmp
             ELSE [err |-> "", res |-> tmp.res \o MapLookup(projectPermissionsFromConfig, roleID)]

\* PWOConfigController.WorkspacePermissionsForRole
WorkspacePermissionsForRole(roleID) ==
    IF missingConfig THEN [err |-> ErrMissingConfig, res |-> <<>>]
    ELSE LET tmp == permissionsForRoleHelper(roleID,
                        BuiltinPermissibleWorkspaceResources \o permissibleWorkspaceResources.items)
         IN  IF tmp.err # "" THEN tmp
             ELSE [err |-> "", res |-> tmp.res \o MapLookup(workspacePermissionsFromConfig, roleID)]

\* PWOConfigController.OnboardingClusterDynamic
OnboardingClusterDynamic ==
    IF onboardingClusterAccessDynamic.nil
    THEN [err |-> ErrDynamicNotInitialized, res |-> onboardingClusterAccessDynamic]
    ELSE [err |-> "", res |-> onboardingClusterAccessDynamic]

(***************************************************************************)
(* A tenancy reconcile as a reader of the store                            *)
(* (CommonReconciler.handleRemainingContentBeforeDelete, and the callers   *)
(* of the permission readers)                                              *)
(***************************************************************************)
TenancyKinds == {"project", "workspace"}

RoleIDChoices == {AdminRole, ViewerRole, "view"}

NoResult == [err |-> "", res |-> <<>>]

\* list / handle: what the two reads of the deletion check returned;
\* handleAtList / listAtHandle: what the other read would have returned then
ReaderIdle == [pc |-> "idle", kind |-> "project", call |-> "", role |-> "",
               list |-> NoResult, handleAtList |-> NoResult,
               listAtHandle |-> NoResult, handle |-> NoResult]

BlockingFor(kind) ==
    IF kind = "project" THEN ResourcesBlockingProjectDeletion ELSE ResourcesBlockingWorkspaceDeletion

PermissionsFor(kind, roleID) ==
    IF kind = "project" THEN ProjectPermissionsForRole(roleID) ELSE WorkspacePermissionsForRole(roleID)

\* c.lock.RLock(): waits while the writer holds the lock
RLock == ~lock.writer /\ lock' = [lock EXCEPT !.readers = @ \cup {"tenancy"}]

\* defer c.lock.RUnlock()
RUnlock == lock' = [lock EXCEPT !.readers = @ \ {"tenancy"}]

rdUnchanged == UNCHANGED <<envVars, OnboardingClusterAccessStatic, storeVars, cfgPc, cfgLocal,
                           cfgResult, cfgEvent, stable, nonCfgVars>>

\* handleRemainingContentBeforeDelete, lines 78/88: enters ResourcesBlocking*Deletion
RdLockBlocking ==
    /\ rd.pc \in {"idle", "done", "returned"}
    /\ RLock
    /\ \E kind \in TenancyKinds :
          rd' = [ReaderIdle EXCEPT !.pc = "reading", !.kind = kind, !.call = "blocking"]
    /\ rdUnchanged

\* ... reads the list and leaves; an error or an empty list ends the check
RdReadBlocking ==
    /\ rd.pc = "reading" /\ rd.call = "blocking"
    /\ RUnlock
    /\ LET res == BlockingFor(rd.kind) IN
       rd' = [rd EXCEPT !.pc = IF res.err = "" /\ Len(res.res) > 0 THEN "haveList" ELSE "returned",
                        !.list = res,
                        !.handleAtList = OnboardingClusterDynamic]
    /\ rdUnchanged

\* handleRemainingContentBeforeDelete, line 101: enters OnboardingClusterDynamic
RdLockDynamic ==
    /\ rd.pc = "haveList"
    /\ RLock
    /\ rd' = [rd EXCEPT !.pc = "reading", !.call = "dynamic"]
    /\ rdUnchanged

\* ... reads the handle and leaves; the reconcile then lists with what it read
RdReadDynamic ==
    /\ rd.pc = "reading" /\ rd.call = "dynamic"
    /\ RUnlock
    /\ LET res == OnboardingClusterDynamic IN
       rd' = [rd EXCEPT !.pc = IF res.err = "" THEN "done" ELSE "returned",
                        !.handle = res,
                        !.listAtHandle = BlockingFor(rd.kind)]
    /\ rdUnchanged

\* enters ProjectPermissionsForRole / WorkspacePermissionsForRole
RdLockPermissions ==
    /\ rd.pc \in {"idle", "done", "returned"}
    /\ RLock
    /\ \E kind \in TenancyKinds, roleID \in RoleIDChoices :
          rd' = [ReaderIdle EXCEPT !.pc = "reading", !.kind = kind, !.call = "permissions",
                                   !.role = roleID]
    /\ rdUnchanged

\* ... reads the rules and leaves
RdReadPermissions ==
    /\ rd.pc = "reading" /\ rd.call = "permissions"
    /\ RUnlock
    /\ rd' = [ReaderIdle EXCEPT !.pc = "returned", !.kind = rd.kind, !.role = rd.role,
                                !.list = PermissionsFor(rd.kind, rd.role)]
    /\ rdUnchanged

(***************************************************************************)
(* The platform cluster, as the config reconciler finds it                 *)
(***************************************************************************)
ConfigObjectChoices ==
    {NoObject, ConfigObject(CfgEmpty, TRUE)} \cup {ConfigObject(c, FALSE) : c \in CfgChoices}

\* The reconcile reads the configuration only in its Get and the providers only
\* in its List, so a change that arrives while a reconcile is under way acts as
\* one that arrives right after it: changes are taken between reconciles.
envUnchanged == cfgPc = "idle" /\ UNCHANGED <<grant, cfgVars, rd, nonCfgVars>>

\* the ProjectWorkspaceConfig is created, changed, marked for deletion or removed
SetConfig ==
    /\ \E o \in ConfigObjectChoices : o # cfgObj /\ cfgObj' = o
    /\ UNCHANGED providers
    /\ envUnchanged

\* ServiceProviders appear, disappear or change their advertised resources
SetProviders ==
    /\ \E l \in ProviderChoices : l # providers /\ providers' = l
    /\ UNCHANGED cfgObj
    /\ envUnchanged

(***************************************************************************)
(* The dynamic access grant held by the cluster-access broker (c.Car)      *)
(***************************************************************************)
NoGrant == [state |-> "none", perms |-> <<>>]

\* Car.Reconcile: submits the permissions registered by Car.Update as the AccessRequest
CarSubmit(state) == [state |-> state, perms |-> cfgLocal.permissions]

\* Car.ReconcileDelete: removes the AccessRequest
CarReconcileDelete == [state |-> "deleted", perms |-> <<>>]

\* Car.Access: a handle bound to the granted permissions
CarAccess == [nil |-> FALSE, perms |-> grant.perms]

NilAccess == [nil |-> TRUE, perms |-> <<>>]

(***************************************************************************)
(* PWOConfigController.reconcile, step by step                             *)
(***************************************************************************)
\* the names of the reconcile requests that reach the controller
RequestNames == {ProviderName, "some-other-config"}

NoLocal == [cfg |-> CfgEmpty, sps |-> <<>>, permissions |-> <<>>]

NoCfgResult == [path |-> "none", err |-> "", requeue |-> FALSE, cfg |-> FALSE]

ErrFetch == "failed to fetch ProjectWorkspaceConfig"
ErrStatic == "static onboarding cluster access is not available"
ErrListProviders == "failed to list ServiceProviders"
ErrResourceName == "error determining resource name"
ErrCarUpdate == "failed to update AccessRequest for onboarding cluster"
ErrCarReconcile == "failed to reconcile cluster access to the onboarding cluster"
ErrCarAccess == "failed to get dynamic onboarding cluster access"
ErrCarDelete == "failed to delete AccessRequest"

listsUnchanged ==
    UNCHANGED <<resourcesBlockingProjectDeletion, resourcesBlockingWorkspaceDeletion,
                permissibleProjectResources, permissibleWorkspaceResources>>

mapsUnchanged == UNCHANGED <<projectPermissionsFromConfig, workspacePermissionsFromConfig>>

cfgFrame == UNCHANGED <<cfgObj, providers, OnboardingClusterAccessStatic, cfgEvent, rd, nonCfgVars>>

\* a return of reconcile: the deferred Unlock runs, the result is handed back
CfgReturn(path, err, requeue, cfg) ==
    /\ cfgPc' = "returned"
    /\ cfgLocal' = NoLocal
    /\ lock' = [lock EXCEPT !.writer = FALSE]
    /\ cfgResult' = [path |-> path, err |-> err, requeue |-> requeue, cfg |-> cfg]
    /\ stable' = Snapshot'

\* a step of reconcile that keeps going, with the lock held
CfgGoto(pc) ==
    /\ cfgPc' = pc
    /\ UNCHANGED <<lock, cfgResult, stable>>

\* a reset that clears the lists and maps but leaves the flag as it was
reset_KeepFlag ==
    /\ permissibleProjectResources' = Nil
    /\ permissibleWorkspaceResources' = Nil
    /\ resourcesBlockingProjectDeletion' = Nil
    /\ resourcesBlockingWorkspaceDeletion' = Nil
    /\ projectPermissionsFromConfig' = Nil
    /\ workspacePermissionsFromConfig' = Nil
    /\ UNCHANGED <<missingConfig, onboardingClusterAccessDynamic>>

\* the closure reset (lines 497-507), up to the call of Car.ReconcileDelete
reset ==
    /\ permissibleProjectResources' = Nil
    /\ permissibleWorkspaceResources' = Nil
    /\ resourcesBlockingProjectDeletion' = Nil
    /\ resourcesBlockingWorkspaceDeletion' = Nil
    /\ projectPermissionsFromConfig' = Nil
    /\ workspacePermissionsFromConfig' = Nil
    /\ missingConfig' = TRUE
    /\ UNCHANGED onboardingClusterAccessDynamic

\* lines 488-491: a request for another name is ignored, without the lock
CfgIgnore ==
    /\ cfgPc = "idle"
    /\ \E name \in RequestNames : name # ProviderName
    /\ cfgResult' = [path |-> "ignored", err |-> "", requeue |-> FALSE, cfg |-> FALSE]
    /\ cfgPc' = "returned"
    /\ UNCHANGED <<lock, storeVars, cfgLocal, stable, grant>>
    /\ cfgFrame

\* lines 474-482 of Reconcile: the event for the outcome, if a configuration came back
CfgEmitEvent ==
    /\ cfgPc = "returned"
    /\ cfgEvent' = IF ~cfgResult.cfg THEN cfgEvent
                   ELSE IF cfgResult.err # "" THEN "Warning/ReconcileFailed"
                   ELSE "Normal/ReconcileSucceeded"
    /\ cfgResult' = NoCfgResult
    /\ cfgPc' = "idle"
    /\ UNCHANGED <<envVars, OnboardingClusterAccessStatic, lock, storeVars, cfgLocal, stable, rd,
                   nonCfgVars>>

\* line 494: c.lock.Lock()
CfgLock ==
    /\ cfgPc = "idle"
    /\ \E name \in RequestNames : name = ProviderName
    /\ ~lock.writer /\ lock.readers = {}
    /\ lock' = [lock EXCEPT !.writer = TRUE]
    /\ cfgPc' = "fetch"
    /\ UNCHANGED <<storeVars, cfgLocal, cfgResult, stable, grant>>
    /\ cfgFrame

\* a fetch that treats every error of Get as NotFound and resets the store
CfgFetchError_Resets ==
    /\ cfgPc = "fetch"
    /\ reset
    /\ UNCHANGED grant
    /\ CfgReturn("fetchError", ErrFetch, FALSE, FALSE)
    /\ cfgFrame

\* lines 511-516: Get fails with an error other than NotFound
CfgFetchError ==
    /\ cfgPc = "fetch"
    /\ UNCHANGED <<storeVars, grant>>
    /\ CfgReturn("fetchError", ErrFetch, FALSE, FALSE)
    /\ cfgFrame

\* lines 511-516: Get reports NotFound: reset, its outcome dropped
CfgFetchNotFound ==
    /\ cfgPc = "fetch"
    /\ ~cfgObj.exists
    /\ reset
    /\ \E deleted \in BOOLEAN : grant' = IF deleted THEN CarReconcileDelete ELSE grant
    /\ CfgReturn("notFound", ErrFetch, FALSE, FALSE)
    /\ cfgFrame

\* lines 518-523: the configuration is in deletion: reset, its outcome returned
CfgFetchDeleting ==
    /\ cfgPc = "fetch"
    /\ cfgObj.exists /\ cfgObj.deleting
    /\ reset
    /\ \E deleted \in BOOLEAN :
          /\ grant' = IF deleted THEN CarReconcileDelete ELSE grant
          /\ CfgReturn("deleting", IF deleted THEN "" ELSE ErrCarDelete, FALSE, TRUE)
    /\ cfgFrame

\* lines 524-528: the configuration was fetched but the static handle is nil
CfgFetchStaticMissing ==
    /\ cfgPc = "fetch"
    /\ cfgObj.exists /\ ~cfgObj.deleting
    /\ ~OnboardingClusterAccessStatic
    /\ missingConfig' = FALSE
    /\ listsUnchanged /\ mapsUnchanged
    /\ UNCHANGED <<onboardingClusterAccessDynamic, grant>>
    /\ CfgReturn("staticMissing", ErrStatic, FALSE, FALSE)
    /\ cfgFrame

\* lines 510-550: the configuration was fetched; missingConfig is cleared
CfgFetch ==
    /\ cfgPc = "fetch"
    /\ cfgObj.exists /\ ~cfgObj.deleting
    /\ OnboardingClusterAccessStatic
    /\ missingConfig' = FALSE
    /\ listsUnchanged /\ mapsUnchanged
    /\ UNCHANGED <<onboardingClusterAccessDynamic, grant>>
    /\ cfgLocal' = [NoLocal EXCEPT !.cfg = cfgObj.Spec]
    /\ CfgGoto("list")
    /\ cfgFrame

\* lines 556-559: listing the ServiceProviders fails
CfgListError ==
    /\ cfgPc = "list"
    /\ UNCHANGED <<storeVars, grant>>
    /\ CfgReturn("listError", ErrListProviders, FALSE, TRUE)
    /\ cfgFrame

\* lines 561-573: the resource name of a provider's kind cannot be discovered
CfgProviderDiscoveryError ==
    /\ cfgPc = "list"
    /\ Assemble(cfgLocal.cfg, providers).err # ""
    /\ UNCHANGED <<storeVars, grant>>
    /\ CfgReturn("providerDiscoveryError", ErrResourceName, FALSE, TRUE)
    /\ cfgFrame

\* lines 556-583: the providers are listed and processed into the new values
CfgListProviders ==
    /\ cfgPc = "list"
    /\ Assemble(cfgLocal.cfg, providers).err = ""
    /\ cfgLocal' = [cfgLocal EXCEPT !.sps = providers]
    /\ UNCHANGED <<storeVars, grant>>
    /\ CfgGoto("install")
    /\ cfgFrame

\* the new workspace lists appended to the stored ones instead of replacing them
CfgInstallLists_Accumulating ==
    /\ cfgPc = "install"
    /\ LET a == Assemble(cfgLocal.cfg, cfgLocal.sps) IN
          /\ resourcesBlockingProjectDeletion' = Slice(a.newResourcesBlockingProjectDeletion)
          /\ resourcesBlockingWorkspaceDeletion' =
                Slice(resourcesBlockingWorkspaceDeletion.items
                        \o a.newResourcesBlockingWorkspaceDeletion)
          /\ permissibleProjectResources' = Slice(a.newPermissibleProjectResources)
          /\ permissibleWorkspaceResources' = Slice(a.newPermissibleWorkspaceResources)
    /\ mapsUnchanged
    /\ UNCHANGED <<onboardingClusterAccessDynamic, missingConfig, grant, cfgLocal>>
    /\ CfgGoto("installPermissions")
    /\ cfgFrame

\* lines 586-589: the four lists are assigned
CfgInstallLists ==
    /\ cfgPc = "install"
    /\ LET a == Assemble(cfgLocal.cfg, cfgLocal.sps) IN
          /\ resourcesBlockingProjectDeletion' = Slice(a.newResourcesBlockingProjectDeletion)
          /\ resourcesBlockingWorkspaceDeletion' = Slice(a.newResourcesBlockingWorkspaceDeletion)
          /\ permissibleProjectResources' = Slice(a.newPermissibleProjectResources)
          /\ permissibleWorkspaceResources' = Slice(a.newPermissibleWorkspaceResources)
    /\ mapsUnchanged
    /\ UNCHANGED <<onboardingClusterAccessDynamic, missingConfig, grant, cfgLocal>>
    /\ CfgGoto("installPermissions")
    /\ cfgFrame

\* lines 590-591: the two maps are assigned
CfgInstallPermissions ==
    /\ cfgPc = "installPermissions"
    /\ LET a == Assemble(cfgLocal.cfg, cfgLocal.sps) IN
          /\ projectPermissionsFromConfig' = Slice(a.newProjectPermissionsFromConfig)
          /\ workspacePermissionsFromConfig' = Slice(a.newWorkspacePermissionsFromConfig)
    /\ listsUnchanged
    /\ UNCHANGED <<onboardingClusterAccessDynamic, missingConfig, grant, cfgLocal>>
    /\ CfgGoto("grant")
    /\ cfgFrame

\* lines 595-616 over the two lists now in the store
GrantGroups ==
    LET p == PermissionGroups(resourcesBlockingProjectDeletion.items, <<>>) IN
    IF p.err # "" THEN p
    ELSE PermissionGroups(resourcesBlockingWorkspaceDeletion.items, p.groups)

\* lines 596-611: the resource name of a blocking kind cannot be discovered
CfgGrantDiscoveryError ==
    /\ cfgPc = "grant"
    /\ GrantGroups.err # ""
    /\ UNCHANGED <<storeVars, grant>>
    /\ CfgReturn("grantDiscoveryError", ErrResourceName, FALSE, TRUE)
    /\ cfgFrame

\* lines 628-630: Car.Update fails
CfgUpdateGrantError ==
    /\ cfgPc = "grant"
    /\ GrantGroups.err = ""
    /\ UNCHANGED <<storeVars, grant>>
    /\ CfgReturn("carUpdateError", ErrCarUpdate, FALSE, TRUE)
    /\ cfgFrame

\* the same step with the write lock given up before the grant is refreshed
CfgUpdateGrant_Unlocked ==
    /\ cfgPc = "grant"
    /\ GrantGroups.err = ""
    /\ cfgLocal' = [cfgLocal EXCEPT !.permissions = Permissions(GrantGroups.groups)]
    /\ UNCHANGED <<storeVars, grant, cfgResult, stable>>
    /\ lock' = [lock EXCEPT !.writer = FALSE]
    /\ cfgPc' = "carReconcile"
    /\ cfgFrame

\* lines 595-630: the permissions are computed and registered with Car.Update
CfgUpdateGrant ==
    /\ cfgPc = "grant"
    /\ GrantGroups.err = ""
    /\ cfgLocal' = [cfgLocal EXCEPT !.permissions = Permissions(GrantGroups.groups)]
    /\ UNCHANGED <<storeVars, grant>>
    /\ CfgGoto("carReconcile")
    /\ cfgFrame

\* lines 631-634: Car.Reconcile fails, before or after the AccessRequest was written
CfgCarReconcileError ==
    /\ cfgPc = "carReconcile"
    /\ \E submitted \in BOOLEAN : grant' = IF submitted THEN CarSubmit("pending") ELSE grant
    /\ UNCHANGED storeVars
    /\ CfgReturn("carReconcileError", ErrCarReconcile, FALSE, TRUE)
    /\ cfgFrame

\* lines 635-638: the AccessRequest is submitted but not granted yet
CfgCarReconcileRequeue ==
    /\ cfgPc = "carReconcile"
    /\ grant' = CarSubmit("pending")
    /\ UNCHANGED storeVars
    /\ CfgReturn("requeue", "", TRUE, TRUE)
    /\ cfgFrame

\* line 631: the AccessRequest is submitted and granted
CfgCarReconcile ==
    /\ cfgPc = "carReconcile"
    /\ grant' = CarSubmit("ready")
    /\ UNCHANGED <<storeVars, cfgLocal>>
    /\ CfgGoto("access")
    /\ cfgFrame

\* lines 641-644: Car.Access fails
CfgAccessError ==
    /\ cfgPc = "access"
    /\ UNCHANGED <<storeVars, grant>>
    /\ CfgReturn("carAccessError", ErrCarAccess, FALSE, TRUE)
    /\ cfgFrame

\* a swap that also rebinds the handle a deletion check already holds, as if
\* the check listed through the store's field instead of its own copy
CfgAccess_ReboundInFlight ==
    /\ cfgPc = "access"
    /\ onboardingClusterAccessDynamic' = CarAccess
    /\ listsUnchanged /\ mapsUnchanged
    /\ UNCHANGED <<missingConfig, grant>>
    /\ CfgReturn("success", "", FALSE, TRUE)
    /\ rd' = IF rd.pc = "done" THEN [rd EXCEPT !.handle = [err |-> "", res |-> CarAccess]] ELSE rd
    /\ UNCHANGED <<cfgObj, providers, OnboardingClusterAccessStatic, cfgEvent, nonCfgVars>>

\* lines 641-648: the dynamic handle is rebound, the reconcile succeeds
CfgAccess ==
    /\ cfgPc = "access"
    /\ onboardingClusterAccessDynamic' = CarAccess
    /\ listsUnchanged /\ mapsUnchanged
    /\ UNCHANGED <<missingConfig, grant>>
    /\ CfgReturn("success", "", FALSE, TRUE)
    /\ cfgFrame

(***************************************************************************)
(* Onboarding cluster: tenancy objects, tenant namespaces, their content   *)
(***************************************************************************)
deleteFinalizer == PwoGroup

ProjectObjectName == "p1"
WorkspaceObjectName == "w1"

\* namespaceForProject
namespaceForProject(project) == "project-" \o project.Name

\* namespaceForWorkspace
namespaceForWorkspace(workspace) == workspace.Namespace \o "--ws-" \o workspace.Name

\* a Project / Workspace as stored: metadata and status
TenancyObject(kind) ==
    [exists |-> TRUE,
     Name |-> IF kind = "project" THEN ProjectObjectName ELSE WorkspaceObjectName,
     Namespace |-> IF kind = "project" THEN ""
                   ELSE namespaceForProject([Name |-> ProjectObjectName]),
     deleting |-> FALSE,
     finalizers |-> {},
     StatusNamespace |-> "",
     ContentRemaining |-> FALSE]

NoTenancyObject(kind) == [TenancyObject(kind) EXCEPT !.exists = FALSE]

\* the namespace the reconciler computes for the object of a kind
TenantNamespace(kind) ==
    IF kind = "project" THEN namespaceForProject(TenancyObject(kind))
    ELSE namespaceForWorkspace(TenancyObject(kind))

\* the kinds, other than Workspace, of which users put instances into a tenant
\* namespace; a workspace namespace may also hold the kind that blocks Projects
ContentKinds(kind) == IF kind = "project" THEN {GvkMyRes} ELSE {GvkSecret, GvkMyRes}

NoTnResult == [err |-> "", requeue |-> FALSE]

TnIdle(kind) ==
    [pc |-> "idle", o |-> NoTenancyObject(kind), base |-> NoTenancyObject(kind),
     checked |-> FALSE, found |-> {}, stored |-> FALSE, result |-> NoTnResult]

tnConstruction ==
    /\ objects = [k \in TenancyKinds |-> NoTenancyObject(k)]
    /\ namespaces = [k \in TenancyKinds |-> "absent"]
    /\ content = [k \in TenancyKinds |-> {}]
    /\ clusterRoles = [k \in TenancyKinds |-> FALSE]
    /\ tn = [k \in TenancyKinds |-> TnIdle(k)]
    /\ everOk = [k \in TenancyKinds |-> FALSE]

(***************************************************************************)
(* Specification of the config store with its writer and readers           *)
(***************************************************************************)
whConstruction ==
    /\ whOverrideName = ""
    /\ whProject = NoObject
    /\ whOverrides = NoObject
    /\ whLast = NoRequest

\* NewPWOConfigController: empty lists, nil maps, no dynamic handle
storeConstruction ==
    /\ resourcesBlockingProjectDeletion = Slice(<<>>)
    /\ resourcesBlockingWorkspaceDeletion = Slice(<<>>)
    /\ permissibleProjectResources = Slice(<<>>)
    /\ permissibleWorkspaceResources = Slice(<<>>)
    /\ projectPermissionsFromConfig = Nil
    /\ workspacePermissionsFromConfig = Nil
    /\ onboardingClusterAccessDynamic = NilAccess
    /\ missingConfig = FALSE
    /\ lock = [writer |-> FALSE, readers |-> {}]
    /\ cfgPc = "idle"
    /\ cfgLocal = NoLocal
    /\ cfgResult = NoCfgResult
    /\ cfgEvent = "none"
    /\ stable = Snapshot
    /\ rd = ReaderIdle
    /\ tnConstruction

Init ==
    /\ whConstruction
    /\ cfgObj = NoObject
    /\ providers = <<>>
    /\ grant = NoGrant
    /\ OnboardingClusterAccessStatic \in BOOLEAN
    /\ storeConstruction

CfgNext ==
    \/ CfgIgnore \/ CfgLock \/ CfgEmitEvent
    \/ CfgFetchError \/ CfgFetchNotFound \/ CfgFetchDeleting \/ CfgFetchStaticMissing \/ CfgFetch
    \/ CfgListError \/ CfgProviderDiscoveryError \/ CfgListProviders
    \/ CfgInstallLists \/ CfgInstallPermissions
    \/ CfgGrantDiscoveryError \/ CfgUpdateGrantError \/ CfgUpdateGrant
    \/ CfgCarReconcileError \/ CfgCarReconcileRequeue \/ CfgCarReconcile
    \/ CfgAccessError \/ CfgAccess

Next == SetConfig \/ SetProviders \/ CfgNext

Spec == Init /\ [][Next]_vars

(***************************************************************************)
(* Specification of the store under concurrent reads: the config           *)
(* reconciler and a tenancy reconcile, with no ServiceProvider registered  *)
(***************************************************************************)
RdNext ==
    \/ RdLockBlocking \/ RdReadBlocking
    \/ RdLockDynamic \/ RdReadDynamic
    \/ RdLockPermissions \/ RdReadPermissions

CfgNextStore ==
    \/ CfgIgnore \/ CfgLock \/ CfgEmitEvent
    \/ CfgFetchError \/ CfgFetchNotFound \/ CfgFetchDeleting \/ CfgFetchStaticMissing \/ CfgFetch
    \/ CfgListError \/ CfgListProviders
    \/ CfgInstallLists \/ CfgInstallPermissions
    \/ CfgGrantDiscoveryError \/ CfgUpdateGrantError \/ CfgUpdateGrant
    \/ CfgCarReconcileError \/ CfgCarReconcileRequeue \/ CfgCarReconcile
    \/ CfgAccessError \/ CfgAccess

NextStore == SetConfig \/ CfgNextStore \/ RdNext

SpecStore == Init /\ [][NextStore]_vars

(***************************************************************************)
(* The onboarding cluster around the tenancy reconcilers                   *)
(***************************************************************************)
tnFrame == UNCHANGED nonTnVars

\* the API server on a delete request: an object without finalizers is removed
DeleteRequested(kind) ==
    IF objects[kind].finalizers = {} THEN NoTenancyObject(kind)
    ELSE [objects[kind] EXCEPT !.deleting = TRUE]

\* everOk follows the object: it is forgotten when the object is gone
EverOkFor(objs) == [k \in TenancyKinds |-> objs[k].exists /\ everOk[k]]

\* a user creates the Project, or the Workspace inside the project namespace
UserCreate(kind) ==
    /\ ~objects[kind].exists
    /\ kind = "workspace" => namespaces["project"] = "active"
    /\ objects' = [objects EXCEPT ![kind] = TenancyObject(kind)]
    /\ UNCHANGED <<namespaces, content, clusterRoles, tn, everOk>>
    /\ tnFrame

\* a user deletes the Project or the Workspace
UserDelete(kind) ==
    /\ objects[kind].exists /\ ~objects[kind].deleting
    /\ objects' = [objects EXCEPT ![kind] = DeleteRequested(kind)]
    /\ everOk' = EverOkFor(objects')
    /\ UNCHANGED <<namespaces, content, clusterRoles, tn>>
    /\ tnFrame

\* a user creates an instance of some kind in a tenant namespace
AddContent(kind) ==
    /\ namespaces[kind] = "active"
    /\ \E gvk \in ContentKinds(kind) \ content[kind] :
          content' = [content EXCEPT ![kind] = @ \cup {gvk}]
    /\ UNCHANGED <<objects, namespaces, clusterRoles, tn, everOk>>
    /\ tnFrame

\* a user deletes such an instance
RemoveContent(kind) ==
    /\ \E gvk \in content[kind] : content' = [content EXCEPT ![kind] = @ \ {gvk}]
    /\ UNCHANGED <<objects, namespaces, clusterRoles, tn, everOk>>
    /\ tnFrame

\* the namespace controller empties a terminating namespace
NsDrain(kind) ==
    /\ namespaces[kind] = "terminating"
    /\ content' = [content EXCEPT ![kind] = {}]
    /\ objects' = IF kind = "project" /\ objects["workspace"].exists
                  THEN [objects EXCEPT !["workspace"] = DeleteRequested("workspace")]
                  ELSE objects
    /\ content' # content \/ objects' # objects
    /\ everOk' = EverOkFor(objects')
    /\ UNCHANGED <<namespaces, clusterRoles, tn>>
    /\ tnFrame

\* ... and removes it once it is empty
NsGone(kind) ==
    /\ namespaces[kind] = "terminating"
    /\ content[kind] = {}
    /\ kind = "project" => ~objects["workspace"].exists
    /\ namespaces' = [namespaces EXCEPT ![kind] = "absent"]
    /\ UNCHANGED <<objects, content, clusterRoles, tn, everOk>>
    /\ tnFrame

(***************************************************************************)
(* ProjectReconciler.Reconcile / WorkspaceReconciler.Reconcile on top of   *)
(* CommonReconciler, step by step                                          *)
(***************************************************************************)
ErrGet == "unable to fetch object"
ErrGetProject == "unable to fetch Project of Workspace"
ErrBlocking == "failed to get resources blocking deletion"
ErrDynamicAccess == "failed to get onboarding cluster access"
ErrList == "failed to list resources"
ErrCleanup == "failed to perform cleanup operation"
ErrRemoveFinalizer == "failed to remove finalizer"
ErrAddFinalizer == "failed to add finalizer"
ErrNamespace == "failed to create or update namespace"
ErrRoles == "failed to create or update roles"

\* whether a List of gvk restricted to namespace n (all namespaces if n is "")
\* returns an item
HasInstance(gvk, n) ==
    \/ /\ gvk = GvkWorkspace
       /\ objects["workspace"].exists
       /\ n \in {"", objects["workspace"].Namespace}
    \/ \E k \in TenancyKinds : gvk \in content[k] /\ n \in {"", TenantNamespace(k)}

\* lines 106-118: the kinds of the list of which an item was found
RemainingResources(blocking, n) ==
    {blocking[i].gvk : i \in {j \in DOMAIN blocking : HasInstance(blocking[j].gvk, n)}}

\* the reconcile moves on
TnGoto(kind, pc, o) ==
    /\ tn' = [tn EXCEPT ![kind].pc = pc, ![kind].o = o]
    /\ everOk' = EverOkFor(objects')

\* the reconcile returns its result
TnReturn(kind, err, requeue) ==
    /\ tn' = [tn EXCEPT ![kind].pc = "returned",
                        ![kind].result = [err |-> err, requeue |-> requeue]]
    /\ everOk' = [k \in TenancyKinds |->
                    /\ objects'[k].exists
                    /\ everOk[k] \/ (k = kind /\ err = "" /\ tn[kind].o.exists)]

\* Status().Update: the status of o is stored unless the write fails or conflicts
StatusUpdate(kind, o, ok) ==
    IF ok /\ objects[kind] = tn[kind].base
    THEN [objects EXCEPT ![kind].StatusNamespace = o.StatusNamespace,
                         ![kind].ContentRemaining = o.ContentRemaining]
    ELSE objects

\* the Get at the top of Reconcile (and getProjectByNamespace for a Workspace).
\* The two reconcilers write disjoint objects and read each other's only through
\* single API calls, so their reconciles are taken one after the other; the
\* cluster's own actions interleave with every step.
TnGet(kind) ==
    /\ \A k \in TenancyKinds : tn[k].pc = "idle"
    /\ UNCHANGED <<objects, namespaces, content, clusterRoles>>
    /\ \E ok \in BOOLEAN :
          IF ~ok THEN
              /\ tn' = [tn EXCEPT ![kind] = [TnIdle(kind) EXCEPT !.pc = "returned",
                                !.result = [err |-> ErrGet, requeue |-> FALSE]]]
              /\ UNCHANGED everOk
          ELSE IF ~objects[kind].exists THEN
              /\ tn' = [tn EXCEPT ![kind] = [TnIdle(kind) EXCEPT !.pc = "returned"]]
              /\ UNCHANGED everOk
          ELSE IF /\ kind = "workspace"
                  /\ (namespaces["project"] = "absent" \/ ~objects["project"].exists) THEN
              /\ tn' = [tn EXCEPT ![kind] = [TnIdle(kind) EXCEPT !.pc = "returned",
                                !.result = [err |-> ErrGetProject, requeue |-> FALSE]]]
              /\ UNCHANGED everOk
          ELSE
              /\ tn' = [tn EXCEPT ![kind] = [TnIdle(kind) EXCEPT !.pc = "check",
                                !.o = objects[kind], !.base = objects[kind]]]
              /\ UNCHANGED everOk
    /\ tnFrame

\* CommonReconciler.handleRemainingContentBeforeDelete
TnCheckRemaining(kind) ==
    /\ tn[kind].pc = "check"
    /\ ~lock.writer
    /\ UNCHANGED <<objects, namespaces, content, clusterRoles>>
    /\ LET o == tn[kind].o
           blocking == BlockingFor(kind)
           found == RemainingResources(blocking.res, o.StatusNamespace)
       IN  IF ~o.deleting THEN TnGoto(kind, "delete", o)
           ELSE IF blocking.err # "" THEN TnReturn(kind, ErrBlocking, FALSE)
           ELSE IF Len(blocking.res) = 0 THEN TnGoto(kind, "delete", o)
           ELSE IF OnboardingClusterDynamic.err # "" THEN TnReturn(kind, ErrDynamicAccess, FALSE)
           ELSE \E ok \in BOOLEAN :
                   IF ~ok THEN TnReturn(kind, ErrList, FALSE)
                   ELSE /\ tn' = [tn EXCEPT
                                    ![kind].pc = IF found # {} THEN "report" ELSE "delete",
                                    ![kind].o = [o EXCEPT !.ContentRemaining = (found # {})],
                                    ![kind].checked = TRUE,
                                    ![kind].found = found]
                        /\ UNCHANGED everOk
    /\ tnFrame

\* the same return without the requeue
TnReportRemaining_NoRequeue(kind) ==
    /\ tn[kind].pc = "report"
    /\ \E ok \in BOOLEAN :
          /\ objects' = StatusUpdate(kind, tn[kind].o, ok)
          /\ tn' = [tn EXCEPT ![kind].pc = "returned",
                              ![kind].stored = ok /\ objects[kind] = tn[kind].base,
                              ![kind].result = [err |-> "", requeue |-> FALSE]]
    /\ everOk' = [everOk EXCEPT ![kind] = objects'[kind].exists]
    /\ UNCHANGED <<namespaces, content, clusterRoles>>
    /\ tnFrame

\* Reconcile, hasRemainingContent: the status is stored, requeue after 3 seconds
TnReportRemaining(kind) ==
    /\ tn[kind].pc = "report"
    /\ \E ok \in BOOLEAN :
          /\ objects' = StatusUpdate(kind, tn[kind].o, ok)
          /\ tn' = [tn EXCEPT ![kind].pc = "returned",
                              ![kind].stored = ok /\ objects[kind] = tn[kind].base,
                              ![kind].result = [err |-> "", requeue |-> TRUE]]
    /\ everOk' = [everOk EXCEPT ![kind] = objects'[kind].exists]
    /\ UNCHANGED <<namespaces, content, clusterRoles>>
    /\ tnFrame

\* a cleanup function that returns nil once its Delete was accepted
DeleteFuncOutcomes_NilOnDelete(kind) == {"notFound", "error"}

\* the cleanup function handed to handleDelete: the tenant namespace is
\* deleted; for a Workspace also its cluster roles and bindings
\* outcome: "notFound", "error", "rolesError" or "remaining"
DeleteFuncOutcomes(kind) ==
    IF namespaces[kind] = "absent" THEN {"notFound", "error"}
    ELSE IF kind = "workspace" THEN {"error", "rolesError", "remaining"}
    ELSE {"error", "remaining"}

\* a handleDelete that takes the cleanup's ResourcesRemaining for a clean return
TnHandleDelete_RemainingIsClean(kind) ==
    /\ tn[kind].pc = "delete"
    /\ UNCHANGED <<objects, content>>
    /\ LET o == tn[kind].o IN
       IF ~o.deleting THEN
           /\ UNCHANGED <<namespaces, clusterRoles>>
           /\ TnGoto(kind, "finalizer", o)
       ELSE IF ~OnboardingClusterAccessStatic THEN
           /\ UNCHANGED <<namespaces, clusterRoles>>
           /\ TnReturn(kind, ErrDynamicAccess, FALSE)
       ELSE IF deleteFinalizer \notin o.finalizers THEN
           /\ UNCHANGED <<namespaces, clusterRoles>>
           /\ TnReturn(kind, "", FALSE)
       ELSE \E outcome \in DeleteFuncOutcomes(kind) :
           CASE outcome = "notFound" ->
                   /\ UNCHANGED <<namespaces, clusterRoles>>
                   /\ TnGoto(kind, "removeFinalizer", o)
             [] outcome = "error" ->
                   /\ UNCHANGED <<namespaces, clusterRoles>>
                   /\ TnReturn(kind, ErrCleanup, FALSE)
             [] outcome = "rolesError" ->
                   /\ namespaces' = [namespaces EXCEPT ![kind] = "terminating"]
                   /\ UNCHANGED clusterRoles
                   /\ TnReturn(kind, ErrCleanup, FALSE)
             [] outcome = "remaining" ->
                   /\ namespaces' = [namespaces EXCEPT ![kind] = "terminating"]
                   /\ clusterRoles' = IF kind = "workspace"
                                      THEN [clusterRoles EXCEPT ![kind] = FALSE]
                                      ELSE clusterRoles
                   /\ TnGoto(kind, "removeFinalizer", o)
    /\ tnFrame

\* CommonReconciler.handleDelete up to the cleanup (lines 164-183)
TnHandleDelete(kind) ==
    /\ tn[kind].pc = "delete"
    /\ UNCHANGED <<objects, content>>
    /\ LET o == tn[kind].o IN
       IF ~o.deleting THEN
           /\ UNCHANGED <<namespaces, clusterRoles>>
           /\ TnGoto(kind, "finalizer", o)
       ELSE IF ~OnboardingClusterAccessStatic THEN
           /\ UNCHANGED <<namespaces, clusterRoles>>
           /\ TnReturn(kind, ErrDynamicAccess, FALSE)
       ELSE IF deleteFinalizer \notin o.finalizers THEN
           /\ UNCHANGED <<namespaces, clusterRoles>>
           /\ TnReturn(kind, "", FALSE)
       ELSE \E outcome \in DeleteFuncOutcomes(kind) :
           CASE outcome = "notFound" ->
                   /\ UNCHANGED <<namespaces, clusterRoles>>
                   /\ TnGoto(kind, "removeFinalizer", o)
             [] outcome = "error" ->
                   /\ UNCHANGED <<namespaces, clusterRoles>>
                   /\ TnReturn(kind, ErrCleanup, FALSE)
             [] outcome = "rolesError" ->
                   /\ namespaces' = [namespaces EXCEPT ![kind] = "terminating"]
                   /\ UNCHANGED clusterRoles
                   /\ TnReturn(kind, ErrCleanup, FALSE)
             [] outcome = "remaining" ->
                   /\ namespaces' = [namespaces EXCEPT ![kind] = "terminating"]
                   /\ clusterRoles' = IF kind = "workspace"
                                      THEN [clusterRoles EXCEPT ![kind] = FALSE]
                                      ELSE clusterRoles
                   /\ TnReturn(kind, "", TRUE)
    /\ tnFrame

\* CommonReconciler.handleDelete, lines 185-191: the finalizer is removed
TnRemoveFinalizer(kind) ==
    /\ tn[kind].pc = "removeFinalizer"
    /\ UNCHANGED <<namespaces, content, clusterRoles>>
    /\ \E ok \in BOOLEAN :
          IF ok /\ objects[kind] = tn[kind].base
          THEN /\ objects' = [objects EXCEPT ![kind] = NoTenancyObject(kind)]
               /\ TnReturn(kind, "", FALSE)
          ELSE /\ UNCHANGED objects
               /\ TnReturn(kind, ErrRemoveFinalizer, FALSE)
    /\ tnFrame

\* ensureFinalizer without the Update: the finalizer stays in memory
ensureFinalizer_InMemory(kind, ok) ==
    [err |-> "", stored |-> objects[kind],
     o |-> [tn[kind].o EXCEPT !.finalizers = @ \cup {deleteFinalizer}]]

\* CommonReconciler.ensureFinalizer: [err, stored, o]
ensureFinalizer(kind, ok) ==
    IF deleteFinalizer \in tn[kind].o.finalizers
    THEN [err |-> "", stored |-> objects[kind], o |-> tn[kind].o]
    ELSE IF ~OnboardingClusterAccessStatic \/ ~ok \/ objects[kind] # tn[kind].base
    THEN [err |-> ErrAddFinalizer, stored |-> objects[kind], o |-> tn[kind].o]
    ELSE LET new == [objects[kind] EXCEPT !.finalizers = @ \cup {deleteFinalizer}]
         IN  [err |-> "", stored |-> new, o |-> new]

\* an ensureFinalizer that issues its Update whether or not the finalizer is there
TnEnsureFinalizer_AlwaysUpdates(kind) ==
    /\ tn[kind].pc = "finalizer"
    /\ UNCHANGED <<namespaces, content, clusterRoles>>
    /\ \E ok \in BOOLEAN :
          IF ~OnboardingClusterAccessStatic \/ ~ok \/ objects[kind] # tn[kind].base
          THEN /\ UNCHANGED objects
               /\ TnReturn(kind, ErrAddFinalizer, FALSE)
          ELSE LET new == [objects[kind] EXCEPT !.finalizers = @ \cup {deleteFinalizer}]
               IN  /\ objects' = [objects EXCEPT ![kind] = new]
                   /\ tn' = [tn EXCEPT ![kind].pc = "namespace", ![kind].o = new,
                                       ![kind].base = new]
                   /\ everOk' = EverOkFor(objects')
    /\ tnFrame

\* Reconcile: the call of ensureFinalizer
TnEnsureFinalizer(kind) ==
    /\ tn[kind].pc = "finalizer"
    /\ UNCHANGED <<namespaces, content, clusterRoles>>
    /\ \E ok \in BOOLEAN :
          LET e == ensureFinalizer(kind, ok) IN
          /\ objects' = [objects EXCEPT ![kind] = e.stored]
          /\ IF e.err # "" THEN TnReturn(kind, e.err, FALSE)
             ELSE /\ tn' = [tn EXCEPT ![kind].pc = "namespace", ![kind].o = e.o,
                                      ![kind].base = IF e.stored # objects[kind]
                                                     THEN e.stored ELSE @]
                  /\ everOk' = EverOkFor(objects')
    /\ tnFrame

\* a reconcile that names a further namespace once the status holds one
TnNamespace_FreshName(kind) ==
    /\ tn[kind].pc = "namespace"
    /\ UNCHANGED <<content, clusterRoles>>
    /\ \E ok \in BOOLEAN, stored \in BOOLEAN :
          IF ok
          THEN /\ namespaces' = [namespaces EXCEPT ![kind] = IF @ = "absent" THEN "active" ELSE @]
               /\ UNCHANGED objects
               /\ TnGoto(kind, "roles",
                         [tn[kind].o EXCEPT !.StatusNamespace =
                             IF @ = "" THEN TenantNamespace(kind) ELSE TenantNamespace(kind) \o "-1"])
          ELSE /\ UNCHANGED namespaces
               /\ objects' = StatusUpdate(kind, tn[kind].o, stored)
               /\ TnReturn(kind, ErrNamespace, FALSE)
    /\ tnFrame

\* Reconcile: CreateOrUpdate of the tenant namespace, Status.Namespace is set;
\* on an error the deferred status update runs and Reconcile returns
TnNamespace(kind) ==
    /\ tn[kind].pc = "namespace"
    /\ UNCHANGED <<content, clusterRoles>>
    /\ \E ok \in BOOLEAN, stored \in BOOLEAN :
          IF ok
          THEN /\ namespaces' = [namespaces EXCEPT ![kind] = IF @ = "absent" THEN "active" ELSE @]
               /\ UNCHANGED objects
               /\ TnGoto(kind, "roles", [tn[kind].o EXCEPT !.StatusNamespace = TenantNamespace(kind)])
          ELSE /\ UNCHANGED namespaces
               /\ objects' = StatusUpdate(kind, tn[kind].o, stored)
               /\ TnReturn(kind, ErrNamespace, FALSE)
    /\ tnFrame

\* a role step that creates the roles when absent and removes them when present
TnRoles_Flipping(kind) ==
    /\ tn[kind].pc = "roles"
    /\ UNCHANGED <<namespaces, content>>
    /\ \E ok \in BOOLEAN, stored \in BOOLEAN :
          /\ clusterRoles' = IF ok THEN [clusterRoles EXCEPT ![kind] = ~@] ELSE clusterRoles
          /\ objects' = StatusUpdate(kind, tn[kind].o, stored)
          /\ TnReturn(kind, IF ok THEN "" ELSE ErrRoles, FALSE)
    /\ tnFrame

\* Reconcile: cluster roles, bindings and role bindings, then the deferred
\* status update
TnRoles(kind) ==
    /\ tn[kind].pc = "roles"
    /\ UNCHANGED <<namespaces, content>>
    /\ \E ok \in BOOLEAN, stored \in BOOLEAN :
          /\ clusterRoles' = IF ok THEN [clusterRoles EXCEPT ![kind] = TRUE] ELSE clusterRoles
          /\ objects' = StatusUpdate(kind, tn[kind].o, stored)
          /\ TnReturn(kind, IF ok THEN "" ELSE ErrRoles, FALSE)
    /\ tnFrame

\* the result is taken by the controller runtime
TnDone(kind) ==
    /\ tn[kind].pc = "returned"
    /\ tn' = [tn EXCEPT ![kind] = TnIdle(kind)]
    /\ UNCHANGED <<objects, namespaces, content, clusterRoles, everOk>>
    /\ tnFrame

(***************************************************************************)
(* Specification of the tenancy reconcilers over a store that holds the    *)
(* snapshot of the constructor, a cleared one or an installed one          *)
(***************************************************************************)
\* the store after a successful reconcile of configuration CfgS3, no providers
InstalledPermissions ==
    LET a == Assemble(CfgS3, <<>>) IN
    Permissions(PermissionGroups(a.newResourcesBlockingWorkspaceDeletion,
                    PermissionGroups(a.newResourcesBlockingProjectDeletion, <<>>).groups).groups)

storeInstalled ==
    LET a == Assemble(CfgS3, <<>>) IN
    /\ cfgObj = ConfigObject(CfgS3, FALSE)
    /\ grant = [state |-> "ready", perms |-> InstalledPermissions]
    /\ resourcesBlockingProjectDeletion = Slice(a.newResourcesBlockingProjectDeletion)
    /\ resourcesBlockingWorkspaceDeletion = Slice(a.newResourcesBlockingWorkspaceDeletion)
    /\ permissibleProjectResources = Slice(a.newPermissibleProjectResources)
    /\ permissibleWorkspaceResources = Slice(a.newPermissibleWorkspaceResources)
    /\ projectPermissionsFromConfig = Slice(a.newProjectPermissionsFromConfig)
    /\ workspacePermissionsFromConfig = Slice(a.newWorkspacePermissionsFromConfig)
    /\ onboardingClusterAccessDynamic = [nil |-> FALSE, perms |-> InstalledPermissions]
    /\ missingConfig = FALSE
    /\ cfgEvent = "Normal/ReconcileSucceeded"

\* the store after a reconcile that found no configuration
storeCleared ==
    /\ cfgObj = NoObject
    /\ grant = CarReconcileDelete
    /\ resourcesBlockingProjectDeletion = Nil
    /\ resourcesBlockingWorkspaceDeletion = Nil
    /\ permissibleProjectResources = Nil
    /\ permissibleWorkspaceResources = Nil
    /\ projectPermissionsFromConfig = Nil
    /\ workspacePermissionsFromConfig = Nil
    /\ onboardingClusterAccessDynamic = NilAccess
    /\ missingConfig = TRUE
    /\ cfgEvent = "none"

InitTenancy ==
    /\ whConstruction
    /\ providers = <<>>
    /\ OnboardingClusterAccessStatic = TRUE
    /\ storeInstalled \/ storeCleared
    /\ lock = [writer |-> FALSE, readers |-> {}]
    /\ cfgPc = "idle"
    /\ cfgLocal = NoLocal
    /\ cfgResult = NoCfgResult
    /\ stable = Snapshot
    /\ rd = ReaderIdle
    /\ tnConstruction

NextTenancy ==
    \E kind \in TenancyKinds :
        \/ UserCreate(kind) \/ UserDelete(kind)
        \/ AddContent(kind) \/ RemoveContent(kind)
        \/ NsDrain(kind) \/ NsGone(kind)
        \/ TnGet(kind) \/ TnCheckRemaining(kind) \/ TnReportRemaining(kind)
        \/ TnHandleDelete(kind) \/ TnRemoveFinalizer(kind) \/ TnEnsureFinalizer(kind)
        \/ TnNamespace(kind) \/ TnRoles(kind) \/ TnDone(kind)

SpecTenancy == InitTenancy /\ [][NextTenancy]_vars

(***************************************************************************)
(* Claims on the tenancy reconcilers                                       *)
(***************************************************************************)
\* the kinds of the served blocking list with an instance in the tenant namespace
BlockingInstances(kind) == RemainingResources(BlockingFor(kind).res, TenantNamespace(kind))

\* a reconcile of an object under deletion has returned without error, the
\* object is still there with deletion timestamp and finalizer, and the
\* namespace holds what the reconcile found in it
DeletionReconciled(kind) ==
    /\ tn[kind].pc = "returned" /\ tn[kind].result.err = "" /\ tn[kind].checked
    /\ objects[kind].exists /\ objects[kind].deleting
    /\ deleteFinalizer \in objects[kind].finalizers
    /\ objects[kind].StatusNamespace = TenantNamespace(kind)
    /\ tn[kind].found = BlockingInstances(kind)

\* C5 (as claimed): after a reconcile of an object that has a deletion
\* timestamp and the finalizer, the stored ContentRemaining condition is
\* present exactly if an instance of a blocking kind is in the tenant
\* namespace (a reconcile whose status write failed is left out).
C5_ContentRemainingIffContent ==
    \A kind \in TenancyKinds :
        DeletionReconciled(kind) =>
            /\ (BlockingInstances(kind) # {} /\ tn[kind].stored) => objects[kind].ContentRemaining
            /\ BlockingInstances(kind) = {} => ~objects[kind].ContentRemaining

\* C6: an object of which a reconcile has returned without error carries the
\* deletion finalizer for as long as it exists.
C6_FinalizerKept ==
    \A kind \in TenancyKinds :
        (objects[kind].exists /\ everOk[kind]) => deleteFinalizer \in objects[kind].finalizers

\* C6 witness: an object that was reconciled, then deleted by its user, is kept
\* with its finalizer by a deletion reconcile that found blocking content.
C6_Witness ==
    \E kind \in TenancyKinds :
        /\ objects[kind].exists /\ everOk[kind] /\ objects[kind].deleting
        /\ deleteFinalizer \in objects[kind].finalizers
        /\ tn[kind].pc = "returned" /\ tn[kind].result.requeue /\ tn[kind].found # {}

\* the step of a reconcile that leaves the position pc
TnLeaves(kind, pc) == tn[kind].pc = pc /\ tn'[kind].pc # pc

\* C13: a reconcile of an object under deletion that checks its namespace
\* while it holds an instance of a blocking kind either fails with an error or
\* sets ContentRemaining with the kinds found, stores the status and returns a
\* requeue (after 3 seconds); it neither deletes the tenant namespace nor
\* touches the finalizer.
C13_BlockedDeletionRequeues ==
    [][ \A kind \in TenancyKinds :
          /\ (TnLeaves(kind, "check") /\ tn[kind].o.deleting /\ BlockingInstances(kind) # {}) =>
                \/ tn'[kind].pc = "returned" /\ tn'[kind].result.err # ""
                \/ /\ tn'[kind].pc = "report"
                   /\ tn'[kind].o.ContentRemaining
                   /\ BlockingInstances(kind) \subseteq tn'[kind].found
          /\ (TnLeaves(kind, "check") \/ TnLeaves(kind, "report")) =>
                /\ tn'[kind].pc \in {"returned", "report"} =>
                      /\ namespaces' = namespaces
                      /\ objects'[kind].exists = objects[kind].exists
                      /\ objects'[kind].finalizers = objects[kind].finalizers
          /\ TnLeaves(kind, "report") =>
                /\ tn'[kind].pc = "returned"
                /\ tn'[kind].result = [err |-> "", requeue |-> TRUE]
                /\ tn'[kind].stored => objects'[kind].ContentRemaining
      ]_vars

\* C13 witness: the deletion reconcile of a Workspace whose namespace holds a
\* Secret has returned a requeue with ContentRemaining stored, the namespace
\* still active and the finalizer in place.
C13_Witness ==
    /\ tn["workspace"].pc = "returned" /\ tn["workspace"].result.requeue
    /\ tn["workspace"].stored /\ tn["workspace"].found = {GvkSecret}
    /\ GvkSecret \in content["workspace"]
    /\ objects["workspace"].deleting /\ objects["workspace"].ContentRemaining
    /\ deleteFinalizer \in objects["workspace"].finalizers
    /\ namespaces["workspace"] = "active"

\* C14 (as claimed): the deletion reconciles of a Workspace without blocking
\* content delete its namespace, its cluster roles and their bindings and
\* only then remove the finalizer: in the step that removes the Workspace
\* the namespace is gone and no cluster role or binding of it is left.
C14_WorkspaceCleanedBeforeRemoval ==
    [][ (TnLeaves("workspace", "removeFinalizer")
            /\ objects["workspace"].exists /\ ~objects'["workspace"].exists) =>
           (namespaces'["workspace"] = "absent" /\ ~clusterRoles'["workspace"])
      ]_vars

(***************************************************************************)
(* Claims on the config store and the config reconciler                    *)
(***************************************************************************)
\* the lists, the maps and the flag of a snapshot are those of the constructor
IsConstruction(s) ==
    /\ s.resourcesBlockingProjectDeletion = Slice(<<>>)
    /\ s.resourcesBlockingWorkspaceDeletion = Slice(<<>>)
    /\ s.permissibleProjectResources = Slice(<<>>)
    /\ s.permissibleWorkspaceResources = Slice(<<>>)
    /\ s.projectPermissionsFromConfig = Nil
    /\ s.workspacePermissionsFromConfig = Nil
    /\ ~s.missingConfig

\* the snapshot is the cleared one, flagged as missing
IsCleared(s) ==
    /\ s.resourcesBlockingProjectDeletion = Nil
    /\ s.resourcesBlockingWorkspaceDeletion = Nil
    /\ s.permissibleProjectResources = Nil
    /\ s.permissibleWorkspaceResources = Nil
    /\ s.projectPermissionsFromConfig = Nil
    /\ s.workspacePermissionsFromConfig = Nil
    /\ s.missingConfig

\* the lists and maps of the snapshot are all those assembled from cfg and sps
IsInstalled(s, cfg, sps) ==
    LET a == Assemble(cfg, sps) IN
    /\ a.err = ""
    /\ s.resourcesBlockingProjectDeletion = Slice(a.newResourcesBlockingProjectDeletion)
    /\ s.resourcesBlockingWorkspaceDeletion = Slice(a.newResourcesBlockingWorkspaceDeletion)
    /\ s.permissibleProjectResources = Slice(a.newPermissibleProjectResources)
    /\ s.permissibleWorkspaceResources = Slice(a.newPermissibleWorkspaceResources)
    /\ s.projectPermissionsFromConfig = Slice(a.newProjectPermissionsFromConfig)
    /\ s.workspacePermissionsFromConfig = Slice(a.newWorkspacePermissionsFromConfig)
    /\ ~s.missingConfig

FullyAssembled(s) == \E cfg \in CfgChoices, sps \in AllProviderLists : IsInstalled(s, cfg, sps)

\* what the snapshot reader that holds the read lock is about to return
ReadResult ==
    IF rd.call = "blocking" THEN BlockingFor(rd.kind) ELSE PermissionsFor(rd.kind, rd.role)

\* C3 (as claimed): a snapshot reader that returns a success reads a snapshot
\* that was assembled in full from some configuration and provider list (or the
\* one of the constructor); with anything else in the store it returns an error.
C3_ReadersServeAssembledOrError ==
    (rd.pc = "reading" /\ rd.call \in {"blocking", "permissions"} /\ ReadResult.err = "") =>
        \/ FullyAssembled(Snapshot)
        \/ IsConstruction(Snapshot)

\* a step in which reconcile returns (the deferred Unlock runs)
CfgReturns == cfgPc \notin {"idle", "returned"} /\ cfgPc' = "returned"

\* C4 (as claimed): whenever reconcile returns it still holds the write lock and
\* the lists, maps and flag it leaves behind are those found when it took the
\* lock, or the cleared ones, or all those assembled in this reconcile.
C4_ReturnLeavesWholeSnapshot ==
    [][CfgReturns =>
          /\ lock.writer
          /\ \/ Snapshot' = stable
             \/ IsCleared(Snapshot')
             \/ IsInstalled(Snapshot', cfgLocal.cfg, cfgLocal.sps)]_vars

\* the grant carries get, list and watch on the resource of gvk
Granted(gvk) ==
    /\ grant.state \in {"pending", "ready"}
    /\ discoverResourceNameForGVK(gvk).err = ""
    /\ \E i \in DOMAIN grant.perms :
          /\ gvk.Group \in SetOf(grant.perms[i].APIGroups)
          /\ discoverResourceNameForGVK(gvk).name \in SetOf(grant.perms[i].Resources)
          /\ SetOf(GrantVerbs) \subseteq SetOf(grant.perms[i].Verbs)

\* C7 (as claimed): whenever the store can be read, every kind in a blocking
\* list it serves is covered by get, list and watch in the dynamic grant.
\* (The builtin entries, which no grant carries, are left out here: the
\* statement fails for the configured kinds alone.)
C7_GrantCoversServedBlockingSets ==
    ~lock.writer =>
        \A kind \in TenancyKinds :
            BlockingFor(kind).err = "" =>
                \A i \in DOMAIN BlockingFor(kind).res :
                    \/ BlockingFor(kind).res[i].Source = SourceBuiltin
                    \/ Granted(BlockingFor(kind).res[i].gvk)

\* the (apiGroup, resource) pairs of the rules of the grant
GrantPairs ==
    UNION { SetOf(grant.perms[i].APIGroups) \X SetOf(grant.perms[i].Resources) :
            i \in DOMAIN grant.perms }

\* for every kind of the list: (group, resource) and (group, resource/status)
ExpectedPairs(blocking) ==
    UNION { { <<blocking[i].gvk.Group, discoverResourceNameForGVK(blocking[i].gvk).name>>,
              <<blocking[i].gvk.Group, StatusOf(discoverResourceNameForGVK(blocking[i].gvk).name)>> } :
            i \in DOMAIN blocking }

\* one rule per apiGroup set, each with exactly get, list and watch
GrantCoalesced ==
    /\ \A i, j \in DOMAIN grant.perms :
          SetOf(grant.perms[i].APIGroups) = SetOf(grant.perms[j].APIGroups) => i = j
    /\ \A i \in DOMAIN grant.perms : grant.perms[i].Verbs = GrantVerbs

\* the reconcile that just returned has submitted its grant
GrantSubmitted == cfgPc = "returned" /\ cfgResult.path \in {"requeue", "carAccessError", "success"}

C9_ReaderSeesOneSnapshot ==
    rd.pc = "done" =>
        \/ rd.handle = rd.handleAtList
        \/ rd.listAtHandle = rd.list

\* C10: the config reconcile holds the write lock from taking it until it
\* returns; a reader holds the read lock while it reads, never together with
\* the writer, and what it reads is the snapshot left by the last return.
C10_NoReadMidUpdate ==
    /\ cfgPc \notin {"idle", "returned"} => lock.writer
    /\ Snapshot # stable => lock.writer
    /\ rd.pc = "reading" => ("tenancy" \in lock.readers /\ ~lock.writer /\ Snapshot = stable)
    /\ lock.writer => lock.readers = {}

\* C10 witness: the reconcile is refreshing the grant with the new lists
\* already assigned, while a deletion check waits between its two reads.
C10_Witness ==
    /\ cfgPc = "carReconcile" /\ lock.writer
    /\ Snapshot # stable
    /\ rd.pc = "haveList"

\* every reader of the lists and of the permissions returns the
\* missing-configuration error
ReadersReportMissing ==
    /\ ResourcesBlockingProjectDeletion.err = ErrMissingConfig
    /\ ResourcesBlockingWorkspaceDeletion.err = ErrMissingConfig
    /\ \A roleID \in RoleIDChoices :
          /\ ProjectPermissionsForRole(roleID).err = ErrMissingConfig
          /\ WorkspacePermissionsForRole(roleID).err = ErrMissingConfig

\* a step in which reconcile returns after it found the configuration absent
\* or in deletion
CfgReturnsAbsent == CfgReturns /\ cfgResult'.path \in {"notFound", "deleting"}

C12_RequeueLeavesSnapshot ==
    [][ /\ (CfgReturns /\ cfgResult'.path = "requeue") =>
              (cfgResult'.requeue /\ cfgResult'.err = "" /\ Snapshot' = stable)
        /\ onboardingClusterAccessDynamic' # onboardingClusterAccessDynamic =>
              grant'.state = "ready"
      ]_vars

\* role identifiers that are neither AdminRole nor ViewerRole: the member role
\* name "view", the empty identifier that MemberRoleToRoleID gives an unknown
\* member role, and others
UnknownRoleIDs == {"view", "", "Admin", "owner"}

\* both permission readers fail for the role identifier
PermissionReadersFail(roleID) ==
    /\ ProjectPermissionsForRole(roleID).err # "" /\ ProjectPermissionsForRole(roleID).res = <<>>
    /\ WorkspacePermissionsForRole(roleID).err # "" /\ WorkspacePermissionsForRole(roleID).res = <<>>

\* C15 (amended): for every role identifier other than "admin" and "viewer"
\* both permission readers fail, whatever the store holds.
C15_UnknownRoleFails == \A roleID \in UnknownRoleIDs : PermissionReadersFail(roleID)

\* C15 witness: the store holds an installed configuration with extra rules
\* for the roles, and the request for role identifier "view" fails as unknown.
C15_Witness ==
    /\ ~lock.writer /\ ~missingConfig
    /\ projectPermissionsFromConfig.items # <<>>
    /\ permissibleWorkspaceResources.items # <<>>
    /\ ProjectPermissionsForRole("view").err = ErrUnknownRole
    /\ WorkspacePermissionsForRole("view").err = ErrUnknownRole
    /\ ProjectPermissionsForRole(ViewerRole).err = ""

\* C15 (as claimed): for every role identifier other than "admin" and "view"
\* both permission readers fail, whatever the store holds.
C15_NonAdminViewRoleFails ==
    \A roleID \in (UnknownRoleIDs \cup {AdminRole, ViewerRole}) \ {"admin", "view"} :
        PermissionReadersFail(roleID)

\* the sequence starts with the elements of prefix, followed by those of rest
StartsWithThen(seq, prefix, rest) == seq = prefix \o rest

\* the groupings that a sequence of rules was made from
GroupingsOf(rules) ==
    [i \in DOMAIN rules |-> APIGroupsWithResources(rules[i].APIGroups, rules[i].Resources)]

\* C16: a served project blocking list is the builtin entries followed by the
\* stored (configured) ones, and the rules served for a project role start
\* with one rule per builtin permissible grouping, followed by one per stored
\* grouping and then the extra rules of the configuration.
C16_BuiltinsAlwaysServed ==
    /\ ResourcesBlockingProjectDeletion.err = "" =>
          StartsWithThen(ResourcesBlockingProjectDeletion.res,
                         BuiltinResourcesBlockingProjectDeletion,
                         resourcesBlockingProjectDeletion.items)
    /\ \A roleID \in {AdminRole, ViewerRole} :
          ProjectPermissionsForRole(roleID).err = "" =>
              LET rules == ProjectPermissionsForRole(roleID).res
                  n == Len(BuiltinPermissibleProjectResources)
                        + Len(permissibleProjectResources.items)
              IN  /\ Len(rules) >= n
                  /\ StartsWithThen(GroupingsOf(SubSeq(rules, 1, n)),
                                    BuiltinPermissibleProjectResources,
                                    permissibleProjectResources.items)

\* C16 witness: the configuration names a project blocking kind and extra
\* project rules; the served list holds the builtin Workspace entry and the
\* configured one, the served rules the builtin grouping and the extras.
C16_Witness ==
    /\ ~lock.writer /\ ~missingConfig
    /\ resourcesBlockingProjectDeletion.items # <<>>
    /\ Len(ResourcesBlockingProjectDeletion.res) >= 2
    /\ ResourcesBlockingProjectDeletion.res[1] = DeletionBlockingResource(GvkWorkspace, SourceBuiltin)
    /\ Len(ProjectPermissionsForRole(ViewerRole).res) >= 2
    /\ ProjectPermissionsForRole(ViewerRole).res[1].Resources = <<"workspaces">>

(***************************************************************************)
(* Specification of the admission gate                                     *)
(***************************************************************************)
InitWebhook ==
    /\ whOverrideName \in {"", "member-overrides"}
    /\ whProject = NoObject
    /\ whOverrides = NoObject
    /\ whLast = NoRequest
    /\ cfgObj = NoObject
    /\ providers = <<>>
    /\ grant = NoGrant
    /\ OnboardingClusterAccessStatic = TRUE
    /\ storeConstruction

NextWebhook == AdmitCreate \/ AdmitUpdate \/ AdmitDelete \/ SetOverrides

SpecWebhook == InitWebhook /\ [][NextWebhook]_vars

(***************************************************************************)
(* Claims on the admission gate                                            *)
(***************************************************************************)
IsOperator(userInfo) == userInfo.Username = Identity

AdminByMembership(obj, userInfo) == UserInfoHasRole(obj, userInfo, RoleAdmin)

AdminByOverride(obj, userInfo) ==
    /\ whOverrides # NoObject
    /\ HasAdminOverrideForResource(whOverrides.entries, userInfo, obj.Name, obj.Kind)

\* C1: an admitted create or update leaves the requester an admin of the
\* resulting object (by membership), unless the requester is the operator
\* identity or has a matching admin override.
C1_AdmissionKeepsRequesterAdmin ==
    (whLast.op \in {"create", "update"} /\ whLast.allowed) =>
        \/ AdminByMembership(whLast.obj, whLast.user)
        \/ IsOperator(whLast.user)
        \/ AdminByOverride(whLast.obj, whLast.user)

\* C1 witness: an admitted update by a plain member (no operator, no override)
\* that changed the member list and kept the requester an admin.
C1_Witness ==
    /\ whLast.op = "update" /\ whLast.allowed
    /\ ~IsOperator(whLast.user)
    /\ ~AdminByOverride(whLast.obj, whLast.user)
    /\ whLast.obj = whProject
    /\ Cardinality(whProject.Members) = 1

\* C2 (as claimed): an admitted delete was requested by an admin of the object
\* (membership or override) or by the operator identity.
C2_DeleteRequiresAdmin ==
    (whLast.op = "delete" /\ whLast.allowed) =>
        \/ AdminByMembership(whLast.obj, whLast.user)
        \/ IsOperator(whLast.user)
        \/ AdminByOverride(whLast.obj, whLast.user)

\* C17: the created-by annotation of an object is the username of the
\* requester of its admitted create, and no admitted update changes it.
C17_CreatedBySetOnceOnCreate ==
    [][ /\ (whProject = NoObject /\ whProject' # NoObject) =>
              (whLast'.op = "create" /\ whProject'.CreatedBy = whLast'.user.Username)
        /\ (whProject # NoObject /\ whProject' # NoObject) =>
              whProject'.CreatedBy = whProject.CreatedBy
      ]_vars

\* C17 witness: an update by an admin other than the creator was admitted, it
\* changed the member list, and the annotation still names the creator.
C17_Witness ==
    /\ whLast.op = "update" /\ whLast.allowed
    /\ whProject # NoObject
    /\ whProject.CreatedBy \notin {"", whLast.user.Username}
    /\ whProject.Members # {}

\* C18 (as claimed): a create, update or delete requested by the operator's
\* own identity passes every validating check, so it is admitted.
C18_OperatorAlwaysAdmitted ==
    (whLast.op \in {"create", "update", "delete"} /\ IsOperator(whLast.user)) => whLast.allowed

\* the requester is an admin of obj: a member with the admin role, the holder
\* of a matching admin override, or the operator identity
IsAdminOf(obj, userInfo) ==
    \/ AdminByMembership(obj, userInfo)
    \/ IsOperator(userInfo)
    \/ AdminByOverride(obj, userInfo)

\* C19: an update is admitted only if the requester is an admin of the stored
\* object (pre-image) and of the submitted object (post-image); a requester
\* who is no admin of the stored object is denied whatever the submitted
\* object contains.
C19_UpdateNeedsAdminOfBothImages ==
    [][ (whLast'.op = "update" /\ whLast'.allowed) =>
            /\ IsAdminOf(whProject, whLast'.user)
            /\ IsAdminOf(whProject', whLast'.user)
      ]_vars

\* C19 witness: an admitted update by a plain group member whose admin role
\* comes from the group entry kept in the submitted object, while the stored
\* override names somebody else.
C19_Witness ==
    /\ whLast.op = "update" /\ whLast.allowed
    /\ whLast.user.Username = "bob"
    /\ whOverrides # NoObject /\ ~AdminByOverride(whProject, whLast.user)
    /\ Cardinality(whProject.Members) = 2
    /\ AdminByMembership(whProject, whLast.user)

\* outcomes of v.Get that leave the override object unresolved
FailedGets == {"notfound", "error"}

\* C20 (as claimed): with an override object configured that cannot be
\* resolved, a create, update or delete is admitted only for a requester who
\* is an admin by membership.
C20_UnresolvedOverrideDeniesNonMembers ==
    (/\ whOverrideName # "" /\ whOverrides = NoObject
     /\ whLast.op \in {"create", "update", "delete"} /\ whLast.allowed) =>
        AdminByMembership(whLast.obj, whLast.user)

\* C20: with an override object configured that cannot be resolved (not found
\* or read error), a create, update or delete is denied with an error unless
\* the requester is an admin by membership of the object(s) checked or is the
\* operator identity.  First for the requests made while the object is
\* absent, then for every request that can be made in the current state with
\* a failing lookup.
C20_UnresolvedOverrideFailsClosed ==
    /\ (/\ whOverrideName # "" /\ whOverrides = NoObject
        /\ whLast.op \in {"create", "update", "delete"} /\ whLast.allowed) =>
           (AdminByMembership(whLast.obj, whLast.user) \/ IsOperator(whLast.user))
    /\ (whLast.err = ErrGetOverrides) =>
           (/\ ~whLast.allowed /\ whOverrideName # "" /\ ~IsOperator(whLast.user)
            /\ whLast.op \in {"update", "delete"} => whProject # NoObject)
    /\ whOverrideName # "" =>
         \A userInfo \in UserInfos, get \in FailedGets, members \in SUBSET MemberChoices :
            LET obj == ProjectObject(members, userInfo.Username) IN
            /\ ValidateCreate(obj, userInfo, get) = "" =>
                  (AdminByMembership(obj, userInfo) \/ IsOperator(userInfo))
            /\ whProject # NoObject =>
                  /\ ValidateDelete(whProject, userInfo, get) = "" =>
                        (AdminByMembership(whProject, userInfo) \/ IsOperator(userInfo))
                  /\ \A get2 \in FailedGets :
                        LET new == ProjectObject(members, whProject.CreatedBy) IN
                        ValidateUpdate(whProject, new, userInfo, get, get2) = "" =>
                           \/ IsOperator(userInfo)
                           \/ (AdminByMembership(whProject, userInfo) /\ AdminByMembership(new, userInfo))

\* C20 witness: a delete by a requester who is no member admin and not the
\* operator, denied with the lookup error while the configured override
\* object does not exist.
C20_Witness ==
    /\ whOverrideName # "" /\ whOverrides = NoObject
    /\ whLast.op = "delete" /\ ~whLast.allowed /\ whLast.err = ErrGetOverrides
    /\ whProject # NoObject
    /\ ~AdminByMembership(whProject, whLast.user) /\ ~IsOperator(whLast.user)

\* override entries the override predicate is evaluated on: every subject
\* kind, with and without the admin role, global and resource-specific
OverrideEntries ==
    { Override(k, n, ns, roles, res) :
        k \in {UserKind, GroupKind, ServiceAccountKind},
        n \in {"bob", "team", "sa1"}, ns \in {"ns1"},
        roles \in {{RoleAdmin}, {RoleView}, {RoleAdmin, RoleView}},
        res \in {{}, {[Kind |-> "project", Name |-> "P1"]},
                 {[Kind |-> "workspace", Name |-> "p1"], [Kind |-> "project", Name |-> "p2"]}} }

\* the entry names the requester: a user or service account by canonical
\* username, a group by one of the requester's groups
OverrideSubjectMatches(o, userInfo) ==
    \/ o.Kind = UserKind /\ o.Name = userInfo.Username
    \/ /\ o.Kind = ServiceAccountKind
       /\ "system:serviceaccount:" \o o.Namespace \o ":" \o o.Name = userInfo.Username
    \/ o.Kind = GroupKind /\ o.Name \in userInfo.Groups

\* admin-by-override as the claim words it
AdminOverrideRule(overrides, userInfo, name, kind) ==
    \E o \in overrides :
        /\ RoleAdmin \in o.Roles
        /\ OverrideSubjectMatches(o, userInfo)
        /\ \/ o.Resources = {}
           \/ \E r \in o.Resources : EqualFold(r.Kind, kind) /\ EqualFold(r.Name, name)

ReconcileOutputs(cfg, sps) ==
    LET a  == Assemble(cfg, sps)
        p  == PermissionGroups(a.newResourcesBlockingProjectDeletion, <<>>)
        pw == PermissionGroups(a.newResourcesBlockingWorkspaceDeletion, p.groups)
    IN  [blocking    |-> Slice(a.newResourcesBlockingWorkspaceDeletion),
         permissible |-> Slice(a.newPermissibleWorkspaceResources),
         grant       |-> Permissions(pw.groups)]

StoredOutputs ==
    [blocking    |-> resourcesBlockingWorkspaceDeletion,
     permissible |-> permissibleWorkspaceResources,
     grant       |-> grant.perms]

ReconcileSucceeded == cfgPc = "returned" /\ cfgResult.path = "success"

ToggleBase == <<ServiceProvider("dummy-1", <<GvkConfigMap>>)>>
ToggleAdded == <<ServiceProvider("dummy-1", <<GvkConfigMap, GvkSecret>>)>>

C23_StatusNamespaceSetOnce ==
    [][ \A k \in TenancyKinds :
          /\ (objects[k].exists /\ objects'[k].exists) =>
                \/ objects'[k].StatusNamespace = objects[k].StatusNamespace
                \/ /\ objects[k].StatusNamespace = ""
                   /\ objects'[k].StatusNamespace = TenantNamespace(k)
          /\ (namespaces[k] = "absent" /\ namespaces'[k] # "absent") =>
                /\ tn[k].pc = "namespace"
                /\ tn'[k].o.StatusNamespace = TenantNamespace(k)
          /\ (objects'[k].exists /\ objects'[k].StatusNamespace # "") =>
                objects'[k].StatusNamespace = TenantNamespace(k)
      ]_vars

\* C23 witness: a later reconcile of a Workspace whose stored status already
\* names its namespace has passed the namespace step again.
C23_Witness ==
    /\ tn["workspace"].pc = "roles"
    /\ tn["workspace"].base.StatusNamespace = namespaceForWorkspace(TenancyObject("workspace"))
    /\ objects["workspace"].StatusNamespace = tn["workspace"].o.StatusNamespace
    /\ namespaces["workspace"] = "active"
    /\ everOk["workspace"]

\* the cluster state a reconcile of the object of a kind writes
ClusterState(kind) == <<objects[kind], namespaces[kind], clusterRoles[kind]>>

\* the remaining-content check of a reconcile of the stored object would find
\* an instance of a blocking kind
Blocked(kind) ==
    /\ BlockingFor(kind).err = ""
    /\ RemainingResources(BlockingFor(kind).res, objects[kind].StatusNamespace) # {}

\* the cluster state a reconcile without failed writes leaves behind: a live
\* object with finalizer, status, namespace and roles; an object under
\* deletion with the condition stored while blocked, else with its namespace
\* (and, for a Workspace, its roles) deleted
Reconciled(kind) ==
    /\ objects[kind].exists
    /\ deleteFinalizer \in objects[kind].finalizers
    /\ IF ~objects[kind].deleting
       THEN /\ objects[kind].StatusNamespace = TenantNamespace(kind)
            /\ namespaces[kind] # "absent"
            /\ clusterRoles[kind]
       ELSE IF Blocked(kind) THEN objects[kind].ContentRemaining
       ELSE /\ namespaces[kind] = "terminating"
            /\ kind = "workspace" => ~clusterRoles[kind]

\* the reconcile in flight has read the object and the namespace as they are now
ViewCurrent(kind) ==
    \/ tn[kind].pc = "idle"
    \/ /\ tn[kind].base = objects[kind]
       /\ tn[kind].checked => ((tn[kind].found # {}) = Blocked(kind))

\* C24: a reconcile without failed writes leaves the cluster state Reconciled,
\* and every step of a reconcile that runs on a Reconciled state with the
\* inputs as they were leaves the object and its status, the namespace and
\* the roles and bindings as they are.
C24_SecondReconcileNoDrift ==
    [][ \A kind \in TenancyKinds :
          /\ (/\ TnLeaves(kind, "roles") /\ tn'[kind].result.err = ""
              /\ tn[kind].base = objects[kind]
              /\ objects'[kind].StatusNamespace = tn[kind].o.StatusNamespace) =>
                Reconciled(kind)'
          /\ (/\ TnLeaves(kind, "delete") /\ tn'[kind].result.requeue
              /\ ViewCurrent(kind)) =>
                Reconciled(kind)'
          /\ (TnLeaves(kind, "report") /\ tn'[kind].stored /\ ViewCurrent(kind)) =>
                Reconciled(kind)'
          /\ (tn'[kind] # tn[kind] /\ Reconciled(kind) /\ ViewCurrent(kind)) =>
                ClusterState(kind)' = ClusterState(kind)
      ]_vars

\* C24 witness: a second reconcile of a live Workspace, begun on the state its
\* first reconcile left, has returned without error.
C24_Witness ==
    /\ tn["workspace"].pc = "returned" /\ tn["workspace"].result.err = ""
    /\ tn["workspace"].base.StatusNamespace = TenantNamespace("workspace")
    /\ tn["workspace"].base = objects["workspace"]
    /\ ~objects["workspace"].deleting
    /\ Reconciled("workspace")

\* C25 (as claimed): every config reconcile of an existing configuration
\* object ends with an event on it: Warning/ReconcileFailed when reconcile
\* returned an error, Normal/ReconcileSucceeded when it did not.
C25_EveryReconcileEmitsEvent ==
    [][ (cfgPc = "returned" /\ cfgPc' = "idle" /\ cfgObj # NoObject /\ cfgResult.path # "ignored") =>
            cfgEvent' = IF cfgResult.err # "" THEN "Warning/ReconcileFailed"
                        ELSE "Normal/ReconcileSucceeded"
      ]_vars

\* the kinds whose resource name a reconcile of cfg and sps has to discover
DiscoveredGVKs(cfg, sps) ==
    SetOf(cfg.Project.ResourcesBlockingDeletion)
      \cup SetOf(cfg.Workspace.ResourcesBlockingDeletion)
      \cup UNION {SetOf(sps[i].Resources) : i \in DOMAIN sps}

\* the API resources of the kind's group/version that have the kind and a
\* name without '/'
NonSubresourceMatches(gvk) ==
    {r \in ServerResourcesForGroupVersion(GroupVersionString(gvk)) :
        r.Kind = gvk.Kind /\ \A n \in PluralNames : r.Name # n \o "/status"}

\* kinds handed to discovery: one match, one match next to a subresource, two
\* matches, no match in a served group/version, a group/version not served
DiscoveryInputs ==
    {GvkConfigMap, GvkMyRes, GvkWorkspace, GvkTwin, GvkGhost,
     GVK("mygroup.project", "v1", "Missing"), GVK("", "v1", "Pod")}

ReturnedPastDiscovery ==
    /\ cfgPc = "returned"
    /\ cfgResult.path \in {"carUpdateError", "carReconcileError", "requeue", "carAccessError", "success"}

ReturnedDiscoveryError ==
    /\ cfgPc = "returned"
    /\ cfgResult.path \in {"providerDiscoveryError", "grantDiscoveryError"}

\* C26: discovery yields a resource name exactly when one API resource of the
\* group/version has the kind and a name without '/', and then that name; a
\* reconcile gets past discovery only if this holds for every kind of the
\* configuration and the providers, and fails with an error when it does not
\* hold for one of them.
C26_DiscoveryNeedsExactlyOneMatch ==
    /\ \A gvk \in DiscoveryInputs :
          LET d == discoverResourceNameForGVK(gvk) IN
          /\ d.err = "" <=> Cardinality(NonSubresourceMatches(gvk)) = 1
          /\ d.err = "" => NonSubresourceMatches(gvk) = {APIResource(d.name, gvk.Kind)}
    /\ ReturnedPastDiscovery =>
          \A gvk \in DiscoveredGVKs(cfgObj.Spec, providers) :
              Cardinality(NonSubresourceMatches(gvk)) = 1
    /\ ReturnedDiscoveryError =>
          /\ cfgResult.err # ""
          /\ \E gvk \in DiscoveredGVKs(cfgObj.Spec, providers) :
                Cardinality(NonSubresourceMatches(gvk)) # 1
    /\ (cfgPc = "returned" /\ cfgResult.path = "listError") => cfgResult.err # ""

\* C26 witness: a reconcile has failed on a provider that advertises a kind
\* with two API resources of that kind.
C26_Witness ==
    /\ cfgPc = "returned" /\ cfgResult.path = "providerDiscoveryError"
    /\ \E i \in DOMAIN providers : GvkTwin \in SetOf(providers[i].Resources)
    /\ Cardinality(NonSubresourceMatches(GvkTwin)) = 2
    /\ Cardinality(NonSubresourceMatches(GvkMyRes)) = 1

\* members the role computation is evaluated on: every kind under the names
\* of a user, a group and a service account
MemberInputs ==
    { Member(k, n, "ns1", roles) :
        k \in {UserKind, GroupKind, ServiceAccountKind},
        n \in {"bob", "team", "sa1"},
        roles \in {{RoleAdmin}, {RoleView}} }
    \cup {Member(ServiceAccountKind, "sa1", "ns2", {RoleAdmin})}

\* the member names the requester: a user or service account by canonical
\* username, a group by a name among the requester's groups
MemberMatches(m, userInfo) ==
    \/ m.Kind = UserKind /\ m.Name = userInfo.Username
    \/ /\ m.Kind = ServiceAccountKind
       /\ "system:serviceaccount:" \o m.Namespace \o ":" \o m.Name = userInfo.Username
    \/ m.Kind = GroupKind /\ m.Name \in userInfo.Groups

RolesRule(members, userInfo, r) == \E m \in members : r \in m.Roles /\ MemberMatches(m, userInfo)

\* C27: the roles computed for a requester on an object contain a role
\* exactly if a member holding the role matches the requester; checked on
\* the stored object and the one of the last admitted request, and on every
\* member of MemberInputs next to one of the members requests carry.
C27_RolesIffMatchingMember ==
    \A userInfo \in UserInfos, r \in {RoleAdmin, RoleView} :
        /\ \A obj \in {whProject, whLast.obj} \ {NoObject} :
              (r \in UserInfoRoles(obj, userInfo) <=> RolesRule(obj.Members, userInfo, r))
        /\ \A m1 \in MemberInputs, m2 \in MemberChoices :
              (r \in UserInfoRoles(ProjectObject({m1, m2}, ""), userInfo)
                 <=> RolesRule({m1, m2}, userInfo, r))

\* C27 witness: an update admitted to a requester whose roles on the stored
\* object, admin and view, come from a group member, while the service
\* account member gives its account the view role only.
C27_Witness ==
    /\ whLast.op = "update" /\ whLast.allowed
    /\ whLast.user.Username = "bob"
    /\ whProject # NoObject
    /\ UserInfoRoles(whProject, whLast.user) = {RoleAdmin, RoleView}
    /\ UserInfoRoles(whProject, [Username |-> SA1Name, Groups |-> {}]) = {RoleView}
    /\ UserInfoRoles(whProject, [Username |-> "alice", Groups |-> {}]) = {}

(***************************************************************************)
(* ProjectReconciler: the cluster role, cluster-role-binding and role      *)
(* binding written per role by the role step of Reconcile                  *)
(***************************************************************************)
AllVerbs == <<"get", "list", "watch", "create", "update", "patch", "delete">>
ReadOnlyVerbs == <<"get", "list", "watch">>

\* rbacv1.PolicyRule with resource names
NamedPolicyRule(groups, resources, names, verbs) ==
    [APIGroups |-> groups, Resources |-> resources, ResourceNames |-> names, Verbs |-> verbs]

\* clusterRoleForEntityAndRole: "<type>:<entity-name>:<role>"
clusterRoleForEntityAndRole(typeIdentifier, name, role) ==
    typeIdentifier \o ":" \o name \o ":" \o role

\* clusterRoleForRole: "<type>-<role>"
clusterRoleForRole(typeIdentifier, role) == typeIdentifier \o "-" \o role

\* roleBindingForRole
roleBindingForRole(typeIdentifier, role) == clusterRoleForRole(typeIdentifier, role)

\* the members of the Project of the model
ProjectMembers == MemberChoices

\* Subject.RbacV1 of the members that hold the role (getSubjectsForProjectRole)
getSubjectsForProjectRole(members, role) ==
    {Subject(m.Kind, m.Name, m.Namespace) : m \in {x \in members : role \in x.Roles}}

\* ProjectReconciler.createOrUpdateClusterRole, per role: the ClusterRole and
\* the ClusterRoleBinding
createOrUpdateClusterRole(project, members, role) ==
    LET name == clusterRoleForEntityAndRole("project", project.Name, role) IN
    [ClusterRole |->
        [Name |-> name,
         Rules |-> << NamedPolicyRule(<<PwoGroup>>, <<"projects">>, <<project.Name>>,
                                      IF role = RoleAdmin THEN AllVerbs ELSE ReadOnlyVerbs),
                      NamedPolicyRule(<<"">>, <<"namespaces">>, <<project.StatusNamespace>>,
                                      <<"get">>) >>,
         Owner |-> project.Name],
     ClusterRoleBinding |->
        [Name |-> name,
         Subjects |-> getSubjectsForProjectRole(members, role),
         RoleRef |-> name,
         Owner |-> project.Name]]

\* ProjectReconciler.createOrUpdateRoleBinding: the RoleBinding in the project namespace
createOrUpdateRoleBinding(project, members, role) ==
    [Name |-> roleBindingForRole("project", role),
     Namespace |-> project.StatusNamespace,
     Subjects |-> getSubjectsForProjectRole(members, role),
     RoleRef |-> clusterRoleForRole("project", role),
     Owner |-> project.Name]

\* a project reconcile has returned without error and its roles and bindings exist
ProjectRolesWritten ==
    /\ tn["project"].pc = "returned" /\ tn["project"].result.err = ""
    /\ ~tn["project"].o.deleting /\ tn["project"].o.StatusNamespace # ""
    /\ clusterRoles["project"]

\* project-permissions(r) plus get on the project namespace
ClaimedProjectRules(project, role) ==
    LET perms == ProjectPermissionsForRole(MemberRoleToRoleID(role)).res IN
    [i \in DOMAIN perms |->
        NamedPolicyRule(perms[i].APIGroups, perms[i].Resources, <<>>, perms[i].Verbs)]
    \o << NamedPolicyRule(<<"">>, <<"namespaces">>, <<project.StatusNamespace>>, <<"get">>) >>

\* C28 (as claimed): after a successful project reconcile there is, per role,
\* a cluster role owned by the project with the rules project-permissions(r)
\* plus get on the project namespace, a cluster-role-binding to it, and a
\* role binding in the project namespace bound to the same cluster role with
\* the members holding the role as subjects.
C28_ProjectRolesCarryPermissions ==
    (ProjectRolesWritten /\ ~missingConfig) =>
        \A role \in {RoleAdmin, RoleView} :
            LET project == tn["project"].o
                c  == createOrUpdateClusterRole(project, ProjectMembers, role)
                rb == createOrUpdateRoleBinding(project, ProjectMembers, role)
            IN  /\ c.ClusterRole.Owner = project.Name
                /\ c.ClusterRole.Rules = ClaimedProjectRules(project, role)
                /\ c.ClusterRoleBinding.RoleRef = c.ClusterRole.Name
                /\ rb.RoleRef = c.ClusterRole.Name
                /\ rb.Namespace = TenantNamespace("project")
                /\ rb.Subjects = getSubjectsForProjectRole(ProjectMembers, role)


\* the verbs the helper gives the rules of the permissible groupings of a role
VerbsOfRole(role) == IF role = RoleAdmin THEN <<"*">> ELSE <<"get", "list", "watch">>

\* one rule per grouping, in order, all with the given verbs
RulePerGrouping(groupings, verbs) ==
    [i \in DOMAIN groupings |->
        PolicyRule(groupings[i].APIGroups, groupings[i].Resources, verbs)]

\* the rules a configuration's additionalPermissions binds to a member role
ExtrasBoundTo(perms, role) == IF role \in DOMAIN perms THEN perms[role] ELSE <<>>

\* C29: with a configuration installed, the permission readers asked for the
\* role identifier of member role admin (view) return one rule per
\* permissible grouping, builtin ones first, each with verbs * (get, list,
\* watch), followed by the extra rules stored for that role; after a
\* successful reconcile these extras are the rules the configuration object
\* binds to the role, verbs included.
C29_ReadersServeGroupingsAndExtras ==
    \A role \in {RoleAdmin, RoleView} :
        LET id == MemberRoleToRoleID(role)
            pp == ProjectPermissionsForRole(id)
            wp == WorkspacePermissionsForRole(id)
        IN  /\ ~missingConfig => (pp.err = "" /\ wp.err = "")
            /\ pp.err = "" =>
                  pp.res = RulePerGrouping(BuiltinPermissibleProjectResources
                                             \o permissibleProjectResources.items,
                                           VerbsOfRole(role))
                           \o MapLookup(projectPermissionsFromConfig, id)
            /\ wp.err = "" =>
                  wp.res = RulePerGrouping(BuiltinPermissibleWorkspaceResources
                                             \o permissibleWorkspaceResources.items,
                                           VerbsOfRole(role))
                           \o MapLookup(workspacePermissionsFromConfig, id)
            /\ ReconcileSucceeded =>
                  /\ MapLookup(projectPermissionsFromConfig, id)
                       = ExtrasBoundTo(cfgObj.Spec.Project.AdditionalPermissions, role)
                  /\ MapLookup(workspacePermissionsFromConfig, id)
                       = ExtrasBoundTo(cfgObj.Spec.Workspace.AdditionalPermissions, role)

\* C29 witness: after a successful reconcile of the configuration with extra
\* rules, the project reader serves for the viewer role the builtin grouping
\* with get, list, watch followed by the extra rule with its verbs get,
\* update, and the workspace reader for the admin role a last rule with the
\* extra's verbs get, update after rules with verbs *.
C29_Witness ==
    /\ ReconcileSucceeded /\ ~lock.writer /\ ~missingConfig
    /\ cfgObj.Spec = CfgS3
    /\ LET pv == ProjectPermissionsForRole(ViewerRole).res
           wa == WorkspacePermissionsForRole(AdminRole).res
       IN  /\ Len(pv) >= 2
           /\ pv[1].Verbs = <<"get", "list", "watch">>
           /\ pv[Len(pv)].Verbs = <<"get", "update">>
           /\ Len(wa) >= 2
           /\ wa[1].Verbs = <<"*">>
           /\ wa[Len(wa)].Verbs = <<"get", "update">>


\* handleDelete is entered for an object with a deletion timestamp and the
\* finalizer, so that it calls the cleanup function
CleanupCalled(kind) ==
    /\ TnLeaves(kind, "delete")
    /\ tn[kind].o.deleting
    /\ deleteFinalizer \in tn[kind].o.finalizers
    /\ OnboardingClusterAccessStatic

\* the cleanup function returns nil exactly when its Delete of the tenant
\* namespace answers NotFound; with the namespace present it ends in
\* ResourcesRemaining or in an error
CleanupCanReturnCleanly(kind) == namespaces[kind] = "absent"

\* the stored object loses the finalizer (and with it, being deleted, is removed)
FinalizerRemoved(kind) ==
    /\ objects[kind].exists /\ deleteFinalizer \in objects[kind].finalizers
    /\ ~objects'[kind].exists \/ deleteFinalizer \notin objects'[kind].finalizers

\* C30: a handleDelete that calls the cleanup function ends in one of three
\* ways: on ResourcesRemaining the reconcile returns a requeue without error,
\* on another cleanup error it returns the error without requeue, in both
\* cases with the stored object and its finalizer untouched; only on a clean
\* return of the cleanup it goes on to remove the finalizer.  No other step
\* removes the finalizer, and its removal is reported without error.
C30_FinalizerRemovedOnlyAfterCleanCleanup ==
    [][ \A kind \in TenancyKinds :
          /\ CleanupCalled(kind) =>
                /\ objects' = objects
                /\ tn'[kind].o.finalizers = tn[kind].o.finalizers
                /\ \/ /\ tn'[kind].pc = "returned"
                      /\ tn'[kind].result = [err |-> "", requeue |-> TRUE]
                      /\ ~CleanupCanReturnCleanly(kind)
                   \/ /\ tn'[kind].pc = "returned"
                      /\ tn'[kind].result = [err |-> ErrCleanup, requeue |-> FALSE]
                   \/ /\ tn'[kind].pc = "removeFinalizer"
                      /\ CleanupCanReturnCleanly(kind)
          /\ tn'[kind].pc = "removeFinalizer" /\ tn[kind].pc # "removeFinalizer" =>
                CleanupCalled(kind) /\ CleanupCanReturnCleanly(kind)
          /\ FinalizerRemoved(kind) =>
                /\ TnLeaves(kind, "removeFinalizer")
                /\ tn'[kind].pc = "returned"
                /\ tn'[kind].result = [err |-> "", requeue |-> FALSE]
      ]_vars

\* C30 witness: the deletion reconcile of a Project without blocking content
\* called the cleanup, which deleted the namespace and raised
\* ResourcesRemaining: the reconcile returned a requeue without error and the
\* stored Project still carries the finalizer.
C30_Witness ==
    /\ tn["project"].pc = "returned"
    /\ tn["project"].result = [err |-> "", requeue |-> TRUE]
    /\ tn["project"].o.deleting /\ ~tn["project"].o.ContentRemaining
    /\ tn["project"].found = {}
    /\ namespaces["project"] = "terminating"
    /\ objects["project"].exists /\ objects["project"].deleting
    /\ deleteFinalizer \in objects["project"].finalizers


\* the cluster state a cleanup that ended in ResourcesRemaining leaves: the
\* tenant namespace deleted (terminating) and, for a Workspace, its cluster
\* roles and bindings deleted
CleanupApplied(kind) ==
    /\ namespaces[kind] = "terminating"
    /\ kind = "workspace" => ~clusterRoles[kind]

\* C31: ensureFinalizer on an object that carries the finalizer writes
\* nothing, changes nothing and cannot fail, and right after a successful
\* ensureFinalizer a further call is such a call, whatever the API would
\* answer.  handleDelete changes nothing on an object that is not under
\* deletion or has no finalizer; a handleDelete whose cleanup ended in
\* ResourcesRemaining leaves the cluster as that cleanup leaves it, and a
\* further handleDelete with the same cleanup outcome on that cluster changes
\* neither the cluster nor the stored object.
C31_FinalizerStepsIdempotent ==
    [][ \A kind \in TenancyKinds :
          /\ (TnLeaves(kind, "finalizer") /\ deleteFinalizer \in tn[kind].o.finalizers) =>
                /\ objects' = objects
                /\ tn'[kind].pc = "namespace"
                /\ tn'[kind].o = tn[kind].o
          /\ (TnLeaves(kind, "finalizer") /\ tn'[kind].pc = "namespace") =>
                \A ok \in BOOLEAN :
                    ensureFinalizer(kind, ok)' =
                        [err |-> "", stored |-> objects'[kind], o |-> tn'[kind].o]
          /\ (TnLeaves(kind, "delete")
                /\ (~tn[kind].o.deleting \/ deleteFinalizer \notin tn[kind].o.finalizers)) =>
                /\ objects' = objects /\ namespaces' = namespaces
                /\ clusterRoles' = clusterRoles
                /\ tn'[kind].o = tn[kind].o
          /\ (CleanupCalled(kind) /\ tn'[kind].pc = "returned" /\ tn'[kind].result.requeue) =>
                /\ CleanupApplied(kind)'
                /\ CleanupApplied(kind) =>
                      /\ objects' = objects /\ namespaces' = namespaces
                      /\ clusterRoles' = clusterRoles
      ]_vars

\* C31 witness: a reconcile read an object that already carries the
\* finalizer, passed ensureFinalizer and stands before the namespace step
\* with the stored object as it was read.
C31_Witness ==
    /\ tn["project"].pc = "namespace"
    /\ objects["project"].exists /\ ~objects["project"].deleting
    /\ deleteFinalizer \in tn["project"].base.finalizers
    /\ tn["project"].o = tn["project"].base
    /\ objects["project"] = tn["project"].base
    /\ objects["project"].StatusNamespace # ""


\* a deletion check leaves OnboardingClusterDynamic with what it read
RdLeavesDynamic == rd.pc = "reading" /\ rd.call = "dynamic" /\ rd'.pc # "reading"

\* the deletion check holds its handle and is listing with it
RdListing == rd.pc = "done"

\* C32: the dynamic handle is swapped with the write lock held and no reader
\* inside; every read of the handle that ends afterwards returns the handle
\* the store holds, which is the one of the last swap; a deletion check that
\* holds a handle keeps it, across swaps, for as long as it lists.
C32_SwapVisibleToLaterReadsOnly ==
    [][ /\ onboardingClusterAccessDynamic' # onboardingClusterAccessDynamic =>
              /\ lock.writer /\ lock.readers = {}
              /\ OnboardingClusterDynamic' = [err |-> "", res |-> CarAccess]
              /\ stable'.onboardingClusterAccessDynamic = CarAccess
        /\ RdLeavesDynamic =>
              /\ rd'.handle = OnboardingClusterDynamic
              /\ onboardingClusterAccessDynamic = stable.onboardingClusterAccessDynamic
        /\ (RdListing /\ RdListing') => rd'.handle = rd.handle
      ]_vars

\* C32 witness: a deletion check lists with the handle it read, and a config
\* reconcile that returned since then has swapped the store's handle for
\* another one.
C32_Witness ==
    /\ RdListing /\ rd.handle.err = ""
    /\ ~rd.handle.res.nil
    /\ cfgPc = "returned" /\ cfgResult.path = "success"
    /\ ~onboardingClusterAccessDynamic.nil
    /\ rd.handle.res # onboardingClusterAccessDynamic


\* the rules the handle was granted carry get, list and watch on the resource of gvk
HandlePermits(handle, gvk) ==
    /\ ~handle.nil
    /\ discoverResourceNameForGVK(gvk).err = ""
    /\ \E i \in DOMAIN handle.perms :
          /\ gvk.Group \in SetOf(handle.perms[i].APIGroups)
          /\ discoverResourceNameForGVK(gvk).name \in SetOf(handle.perms[i].Resources)
          /\ SetOf(GrantVerbs) \subseteq SetOf(handle.perms[i].Verbs)

\* C33 (as claimed): a deletion check that has obtained a blocking list and
\* the dynamic handle from the store lists with a handle whose grant carries
\* get, list and watch on every kind of that list.  (The builtin entries,
\* which no grant carries, are left out here: the statement fails for the
\* configured kinds alone.)
C33_HandleCoversObtainedList ==
    (rd.pc = "done" /\ rd.list.err = "" /\ rd.handle.err = "") =>
        \A i \in DOMAIN rd.list.res :
            \/ rd.list.res[i].Source = SourceBuiltin
            \/ HandlePermits(rd.handle.res, rd.list.res[i].gvk)


\* C34 (as claimed): in every step that removes the finalizer of the
\* Workspace, none of its cluster roles and cluster-role-bindings exists,
\* neither before nor after the step.
C34_NoWorkspaceRolesAtFinalizerRemoval ==
    [][ FinalizerRemoved("workspace") =>
           (~clusterRoles["workspace"] /\ ~clusterRoles'["workspace"])
      ]_vars


\* a reconcile that read the object under deletion with its finalizer returns
\* without error while the tenant namespace exists
DeletionReconcileReturns(kind) ==
    /\ tn[kind].pc # "returned" /\ tn'[kind].pc = "returned"
    /\ tn[kind].o.exists /\ tn[kind].o.deleting
    /\ deleteFinalizer \in tn[kind].o.finalizers
    /\ namespaces[kind] # "absent"
    /\ tn'[kind].result.err = ""

\* the stored object keeps its finalizer over the step
FinalizerKept(kind) ==
    /\ objects'[kind].exists = objects[kind].exists
    /\ objects'[kind].finalizers = objects[kind].finalizers

\* the finalizer is removed only with the tenant namespace reported absent
RemovalNeedsAbsentNamespace(kind) ==
    FinalizerRemoved(kind) =>
        (TnLeaves(kind, "removeFinalizer") /\ namespaces[kind] = "absent")

ProjectNamespaceDeleted ==
    /\ TnLeaves("project", "delete")
    /\ namespaces["project"] = "active"
    /\ namespaces'["project"] = "terminating"

\* C36 (as claimed): while a Workspace object exists in the project's
\* namespace, no step removes the Project's finalizer and no step of the
\* Project reconciler deletes the project namespace.
C36_ProjectWaitsForWorkspaces ==
    [][ objects["workspace"].exists =>
           (~FinalizerRemoved("project") /\ ~ProjectNamespaceDeleted)
      ]_vars


\* the longest name the Project and Workspace schemas admit
MaxNameLength == 25

\* object names tried; all are valid Kubernetes names
NameInputs == {"a", "b", "a--ws-b", "team-1", "a-name-of-26-characters-xx"}

AdmissibleNames == {n \in NameInputs : Len(n) <= MaxNameLength}

\* Projects and the Workspaces in their namespaces, with admissible names
ProjectInputs == {[kind |-> "project", Name |-> n, Namespace |-> ""] : n \in AdmissibleNames}

WorkspaceInputs ==
    {[kind |-> "workspace", Name |-> n, Namespace |-> namespaceForProject(p)] :
        n \in AdmissibleNames, p \in ProjectInputs}

\* the tenant namespace the reconciler of the object's kind computes for it
NamespaceOf(obj) ==
    IF obj.kind = "project" THEN namespaceForProject(obj) ELSE namespaceForWorkspace(obj)

\* C37 (as claimed): in a cluster that holds tenancy objects, two objects
\* with admissible names that resolve to the same tenant namespace are the
\* same object.
C37_TenantNamespacesDistinct ==
    (\E kind \in TenancyKinds : objects[kind].exists) =>
        \A x, y \in ProjectInputs \cup WorkspaceInputs :
            NamespaceOf(x) = NamespaceOf(y) => x = y


\* the content check of a reconcile ends with instances found
CheckFindsContent(kind) == TnLeaves(kind, "check") /\ tn'[kind].pc = "report"

\* C38 (as claimed): whenever the content check of an object under deletion
\* finds blocking instances, each kind it found has an instance in the
\* object's own tenant namespace.
C38_OnlyOwnNamespaceBlocks ==
    [][ \A kind \in TenancyKinds :
          CheckFindsContent(kind) => tn'[kind].found \subseteq BlockingInstances(kind)
      ]_vars


\* reconcile returns from a Get that failed with an error other than NotFound
CfgReturnsFetchError == CfgReturns /\ cfgResult'.path = "fetchError"

\* C39: a config reconcile whose Get of the configuration fails with an
\* error other than NotFound returns the fetch error without requeue; from
\* taking the lock to its return the lists, the maps, the missingConfig flag
\* and the dynamic handle stay those of the last return before it, and the
\* dynamic grant is not touched.
C39_FetchErrorLeavesStoreAndGrant ==
    [][ /\ CfgReturnsFetchError =>
              /\ cfgPc = "fetch"
              /\ cfgResult'.err = ErrFetch /\ ~cfgResult'.requeue
              /\ Snapshot' = Snapshot /\ Snapshot' = stable /\ stable' = stable
              /\ grant' = grant
        /\ (cfgPc = "idle" /\ cfgPc' = "fetch") =>
              /\ Snapshot' = Snapshot /\ Snapshot = stable /\ stable' = stable
              /\ grant' = grant
      ]_vars

\* C39 witness: a reconcile returned the fetch error and the store still
\* serves the installed configuration, with the grant ready and the dynamic
\* handle bound.
C39_Witness ==
    /\ cfgPc = "returned" /\ cfgResult.path = "fetchError" /\ cfgResult.err = ErrFetch
    /\ ~missingConfig
    /\ resourcesBlockingProjectDeletion.items # <<>>
    /\ projectPermissionsFromConfig.items # <<>>
    /\ grant.state = "ready" /\ grant.perms # <<>>
    /\ ~onboardingClusterAccessDynamic.nil


\* entries handed to Append: apiGroups in either order, resources partly
\* present in the lists below, partly new, once also repeated
AppendElemInputs ==
    { APIGroupsWithResources(<<"g1">>, <<"a">>),
      APIGroupsWithResources(<<"g1">>, <<"c", "a", "c">>),
      APIGroupsWithResources(<<"g2", "g1">>, <<"b", "d">>),
      APIGroupsWithResources(<<"g1", "g2">>, <<"d">>),
      APIGroupsWithResources(<<"g3">>, <<"a">>),
      APIGroupsWithResources(<<"">>, <<"secrets">>) }

\* lists appended to, next to the ones the store holds
AppendListInputs ==
    { <<>>,
      <<APIGroupsWithResources(<<"g1">>, <<"a", "b">>)>>,
      <<APIGroupsWithResources(<<"g1", "g2">>, <<"a">>), APIGroupsWithResources(<<"g1">>, <<"b">>)>>,
      <<APIGroupsWithResources(<<"g2">>, <<"a">>), APIGroupsWithResources(<<"g2", "g1">>, <<"b">>),
        APIGroupsWithResources(<<"g1", "g2">>, <<"c">>)>> }

\* no element occurs twice in the sequence
NoDuplicates(seq) == \A i, j \in DOMAIN seq : seq[i] = seq[j] => i = j

\* seq starts with the sequence prefix
HasPrefix(seq, prefix) == Len(seq) >= Len(prefix) /\ SubSeq(seq, 1, Len(prefix)) = prefix

\* the entries of l whose apiGroups equal those of elem as sets
SameGroups(l, elem) == {i \in DOMAIN l : SetOf(l[i].APIGroups) = SetOf(elem.APIGroups)}

\* what Append(l, elem) is to return
AppendRule(l, elem, res) ==
    IF SameGroups(l, elem) = {}
    THEN res = l \o <<elem>>
    ELSE LET i == CHOOSE k \in SameGroups(l, elem) : \A j \in SameGroups(l, elem) : k <= j IN
         /\ Len(res) = Len(l)
         /\ \A j \in DOMAIN l : j # i => res[j] = l[j]
         /\ res[i].APIGroups = l[i].APIGroups
         /\ SetOf(res[i].Resources) = SetOf(l[i].Resources) \cup SetOf(elem.Resources)
         /\ HasPrefix(res[i].Resources, l[i].Resources)
         /\ Len(res[i].Resources) =
               Len(l[i].Resources) + Cardinality(SetOf(elem.Resources) \ SetOf(l[i].Resources))
         /\ NoDuplicates(l[i].Resources) => NoDuplicates(res[i].Resources)

====
